---- MODULE Spec2Model ----
(***************************************************************************)
(* A model of hst-tw-follow: the profile age database (age.rs), the follow *)
(* store (store.rs) and the batch archive format (archive.rs).             *)
(*                                                                         *)
(* Time is counted in ticks, TicksPerSec ticks to the second: Utc::now()   *)
(* has sub-second precision, while every stored timestamp is a count of    *)
(* whole seconds.  A DateTime is a tick count, an Option<DateTime> is a     *)
(* tick count or None, and a Duration is a count of seconds.               *)
(***************************************************************************)
EXTENDS Integers, Sequences, FiniteSets, TLC

\* ------------------------------------------------------------------ bounds
TicksPerSec == 2
MaxTick == 4
MaxId == 2
MaxLen == 2
SecsPerDay == 2
MaxChange == 3
MaxSec == 4
MaxBatches == 2

\* -------------------------------------------------------- program constants
AGE_TAG == 0
ID_TAG == 1

\* v fits an unsigned 32-bit integer: 0 <= v <= 65535 * 65536 + 65535.
FitsU32(v) == v >= 0 /\ v \div 65536 <= 65535

None == -1
FirstTick == TicksPerSec

Ids == 1..MaxId
Counts == 1..MaxId
\* min_age and min_running, in seconds (downloader.rs uses 6 h and 25 min).
Durations == {0, 1}
\* Duration::days(7) of default_profile_target_age, scaled to the clock.
DefaultTargetAge == 2
\* The target ages profile_target_age gives to insert.
TargetAges == {1, DefaultTargetAge}

VARIABLES
    now,        \* the clock, in ticks
    db,         \* the RocksDB key space of ProfileAgeDb: key |-> value
    ret,        \* the last operation and what it returned
    hist,       \* per id: when it was last leased and last finished
    codec,      \* a batch, the bytes written for it, the batches read back
    fold,       \* a State, a batch made or given, the State after update
    users,      \* State.users of the Store: user id |-> UserState
    writer,     \* State.writer: the bytes its BufWriter holds back
    current,    \* the bytes of current.bin
    past,       \* the files of past/: date |-> the bytes written to it
    workers,    \* per Session loop: where it is in Session::scrape, its lease
    granted,    \* per user: the expiration of the lease granted and not released
    deactivations,  \* the DeactivationLog: id |-> the status code recorded
    download,   \* the Downloader: where it is in run_batch, the ids it leased
    loops,      \* per loop of main: iterating, sleeping (until when) or ended
    tracked,    \* the TrackedUserDb: id |-> the TrackedUser
    failed      \* Session.failed: the ids whose scrape failed

\* What the operations of ProfileAgeDb leave alone.
storeVars == <<users, writer, current, past, workers, granted>>
trackedVars == <<tracked, failed>>
sessionVars == <<deactivations, download, loops, trackedVars>>
outsideAge == <<codec, fold, storeVars, sessionVars>>

\* ------------------------------------------------------------- age.rs codec
Secs(t) == t \div TicksPerSec

timestamp_to_u32_ok(t) == t = None \/ FitsU32(Secs(t))

timestamp_to_u32(t) == IF t = None THEN 0 ELSE Secs(t)

timestamp_from_u32(v) == IF v = 0 THEN None ELSE v * TicksPerSec

age_key(next, id) == <<AGE_TAG, timestamp_to_u32(next), id>>

parse_age_key(key) == [next |-> timestamp_from_u32(key[2]), id |-> key[3]]

age_value(last, started) ==
    IF started # None
    THEN <<timestamp_to_u32(last), timestamp_to_u32(started)>>
    ELSE <<timestamp_to_u32(last)>>

parse_age_value(value) ==
    IF Len(value) = 1
    THEN [last |-> timestamp_from_u32(value[1]), started |-> None]
    ELSE [last |-> timestamp_from_u32(value[1]),
          started |-> timestamp_from_u32(value[2])]

id_key(id) == <<ID_TAG, id>>

id_value_ok(next, target_age) ==
    timestamp_to_u32_ok(next) /\ FitsU32(target_age)

id_value(next, target_age) == <<timestamp_to_u32(next), target_age>>

parse_id_value(value) ==
    [next |-> timestamp_from_u32(value[1]), target_age |-> value[2]]

\* ------------------------------------------------------- the key-value store
Put(d, key, value) == [k \in DOMAIN d \cup {key} |-> IF k = key THEN value ELSE d[k]]

Del(d, key) == [k \in DOMAIN d \ {key} |-> d[k]]

EmptyDb == [k \in {} |-> <<>>]

\* Byte order of two keys: the tag byte first, then the big-endian fields.
KeyLess(a, b) ==
    \/ a[1] < b[1]
    \/ /\ a[1] = b[1]
       /\ \/ a[2] < b[2]
          \/ a[1] = AGE_TAG /\ a[2] = b[2] /\ a[3] < b[3]

RECURSIVE SortedKeys(_)
SortedKeys(keys) ==
    IF keys = {} THEN <<>>
    ELSE LET first == CHOOSE k \in keys : \A o \in keys \ {k} : KeyLess(k, o)
         IN <<first>> \o SortedKeys(keys \ {first})

\* ---------------------------------------------------------------- insert
insert(d, id, last, target_age) ==
    LET next == IF last = None THEN None ELSE last + target_age * TicksPerSec
        known == id_key(id) \in DOMAIN d
        d1 == IF known
              THEN Del(d, age_key(parse_id_value(d[id_key(id)]).next, id))
              ELSE d
        d2 == Put(d1, age_key(next, id), age_value(last, None))
        d3 == Put(d2, id_key(id), id_value(next, target_age))
    IN IF ~timestamp_to_u32_ok(next) \/ ~timestamp_to_u32_ok(last)
       THEN [ok |-> FALSE, db |-> d, val |-> "InvalidTimestamp"]
       ELSE IF ~id_value_ok(next, target_age)
       THEN [ok |-> FALSE, db |-> d, val |-> "InvalidDuration"]
       ELSE [ok |-> TRUE, db |-> d3, val |-> known]

\* ------------------------------------------------------------- prioritize
\* prioritize that leaves the old priority record in place.
prioritize_keep_old(d, id, default_target_age) ==
    LET known == id_key(id) \in DOMAIN d
        cur == parse_id_value(d[id_key(id)])
        k2 == Put(d, age_key(None, id), age_value(None, None))
        k3 == Put(k2, id_key(id),
                  id_value(None, IF known THEN cur.target_age ELSE default_target_age))
    IN [ok |-> TRUE, db |-> k3, val |-> known]

\* prioritize that gives every id the default target age.
prioritize_default_age(d, id, default_target_age) ==
    LET known == id_key(id) \in DOMAIN d
        cur == parse_id_value(d[id_key(id)])
        current_age_key == age_key(cur.next, id)
        last == IF current_age_key \in DOMAIN d
                THEN parse_age_value(d[current_age_key]).last
                ELSE None
        k1 == IF known THEN Del(d, current_age_key) ELSE d
        k2 == Put(k1, age_key(None, id), age_value(IF known THEN last ELSE None, None))
        k3 == Put(k2, id_key(id), id_value(None, default_target_age))
    IN [ok |-> TRUE, db |-> k3, val |-> known]

prioritize(d, id, default_target_age) ==
    LET known == id_key(id) \in DOMAIN d
        cur == parse_id_value(d[id_key(id)])
        current_age_key == age_key(cur.next, id)
        last == IF current_age_key \in DOMAIN d
                THEN parse_age_value(d[current_age_key]).last
                ELSE None
        k1 == Del(d, current_age_key)
        k2 == Put(k1, age_key(None, id), age_value(last, None))
        k3 == Put(k2, id_key(id), id_value(None, cur.target_age))
        u1 == Put(d, age_key(None, id), age_value(None, None))
        u2 == Put(u1, id_key(id), id_value(None, default_target_age))
    IN IF known
       THEN [ok |-> TRUE, db |-> k3, val |-> TRUE]
       ELSE IF ~id_value_ok(None, default_target_age)
       THEN [ok |-> FALSE, db |-> d, val |-> "InvalidDuration"]
       ELSE [ok |-> TRUE, db |-> u2, val |-> FALSE]

\* ----------------------------------------------------------------- finish
\* finish that records no observation time.
finish_unobserved(d, id, default_target_age, t) ==
    LET known == id_key(id) \in DOMAIN d
        cur == parse_id_value(d[id_key(id)])
        target_age == IF known THEN cur.target_age ELSE default_target_age
        new_next == t + target_age * TicksPerSec
        d1 == IF known THEN Del(d, age_key(cur.next, id)) ELSE d
        d2 == Put(d1, age_key(new_next, id), age_value(None, None))
        d3 == Put(d2, id_key(id), id_value(new_next, target_age))
    IN [ok |-> TRUE, db |-> d3, val |-> known]

\* finish that leaves the lease-started marker of the old record in the new.
finish_keeping_lease(d, id, default_target_age, t) ==
    LET known == id_key(id) \in DOMAIN d
        cur == parse_id_value(d[id_key(id)])
        target_age == IF known THEN cur.target_age ELSE default_target_age
        new_next == t + target_age * TicksPerSec
        started == IF known /\ age_key(cur.next, id) \in DOMAIN d
                   THEN parse_age_value(d[age_key(cur.next, id)]).started
                   ELSE None
        d1 == IF known THEN Del(d, age_key(cur.next, id)) ELSE d
        d2 == Put(d1, age_key(new_next, id), age_value(t, started))
        d3 == Put(d2, id_key(id), id_value(new_next, target_age))
    IN [ok |-> TRUE, db |-> d3, val |-> known]

finish(d, id, default_target_age, t) ==
    LET known == id_key(id) \in DOMAIN d
        cur == parse_id_value(d[id_key(id)])
        target_age == IF known THEN cur.target_age ELSE default_target_age
        new_next == t + target_age * TicksPerSec
        d1 == IF known THEN Del(d, age_key(cur.next, id)) ELSE d
        d2 == Put(d1, age_key(new_next, id), age_value(t, None))
        d3 == Put(d2, id_key(id), id_value(new_next, target_age))
    IN IF ~timestamp_to_u32_ok(new_next) \/ ~timestamp_to_u32_ok(t)
       THEN [ok |-> FALSE, db |-> d, val |-> "InvalidTimestamp"]
       ELSE IF ~id_value_ok(new_next, target_age)
       THEN [ok |-> FALSE, db |-> d, val |-> "InvalidDuration"]
       ELSE [ok |-> TRUE, db |-> d3, val |-> known]

\* ----------------------------------------------------------------- delete
delete(d, id) ==
    LET known == id_key(id) \in DOMAIN d
        cur == parse_id_value(d[id_key(id)])
        d1 == Del(Del(d, age_key(cur.next, id)), id_key(id))
    IN IF known
       THEN [ok |-> TRUE, db |-> d1, val |-> TRUE]
       ELSE [ok |-> TRUE, db |-> d, val |-> FALSE]

\* --------------------------------------------------------------- get_next
\* The filter without its test of the lease.
Eligible_any_lease(value, min_age, min_running, t) ==
    LET v == parse_age_value(value)
    IN ~(v.last # None /\ t - v.last < min_age * TicksPerSec)

\* The filter of get_next: FALSE for an entry that is skipped.
Eligible(value, min_age, min_running, t) ==
    LET v == parse_age_value(value)
    IN /\ ~(v.last # None /\ t - v.last < min_age * TicksPerSec)
       /\ ~(v.started # None /\ t - v.started < min_running * TicksPerSec)

RECURSIVE TakeEligible(_, _, _, _, _, _)
TakeEligible(d, keys, count, min_age, min_running, t) ==
    IF keys = <<>> \/ count = 0 \/ Head(keys)[1] # AGE_TAG THEN <<>>
    ELSE IF Eligible(d[Head(keys)], min_age, min_running, t)
    THEN <<Head(keys)>> \o
         TakeEligible(d, Tail(keys), count - 1, min_age, min_running, t)
    ELSE TakeEligible(d, Tail(keys), count, min_age, min_running, t)

RECURSIVE MarkStarted(_, _, _)
MarkStarted(d, keys, t) ==
    IF keys = <<>> THEN d
    ELSE MarkStarted(
             Put(d, Head(keys),
                 age_value(parse_age_value(d[Head(keys)]).last, t)),
             Tail(keys), t)

get_next(d, count, min_age, min_running, t) ==
    LET pairs == TakeEligible(d, SortedKeys(DOMAIN d), count, min_age, min_running, t)
        ids == [i \in 1..Len(pairs) |-> parse_age_key(pairs[i]).id]
    IN IF ~timestamp_to_u32_ok(t)
       THEN [ok |-> FALSE, db |-> d, val |-> "InvalidTimestamp"]
       ELSE [ok |-> TRUE, db |-> MarkStarted(d, pairs, t), val |-> ids]

\* ------------------------------------------- records that do not decode
\* A priority key cut after its tag byte, and values that are neither of
\* one nor of two words of four bytes.
CutKey == <<AGE_TAG>>
BadValues == {<<>>, <<0, 1, 1>>}

\* parse_id_value and parse_age_value give InvalidValueBytes.
id_value_invalid(value) == Len(value) # 2
age_value_invalid(value) == Len(value) \notin {1, 2}

\* What the scan of get_next meets before it has taken count entries: "none",
\* or the error of the first value that does not decode.
RECURSIVE scan_error(_, _, _, _, _, _)
scan_error(d, keys, count, min_age, min_running, t) ==
    IF keys = <<>> \/ count = 0 \/ Head(keys)[1] # AGE_TAG THEN "none"
    ELSE IF age_value_invalid(d[Head(keys)]) THEN "InvalidValueBytes"
    ELSE IF Eligible(d[Head(keys)], min_age, min_running, t)
    THEN scan_error(d, Tail(keys), count - 1, min_age, min_running, t)
    ELSE scan_error(d, Tail(keys), count, min_age, min_running, t)

\* The transactions of ProfileAgeDb on a database that may hold such
\* records.  An error returns before tx.commit(), and the transaction is
\* dropped: the database is as it was.  parse_age_key slices key[1..5]
\* before it converts: on a key of one byte the slice panics.
insert_tx(d, id, last, target_age) ==
    IF id_key(id) \in DOMAIN d /\ id_value_invalid(d[id_key(id)])
    THEN [ok |-> FALSE, db |-> d, val |-> "InvalidValueBytes"]
    ELSE insert(d, id, last, target_age)

prioritize_tx(d, id, default_target_age) ==
    IF id_key(id) \notin DOMAIN d THEN prioritize(d, id, default_target_age)
    ELSE IF id_value_invalid(d[id_key(id)])
    THEN [ok |-> FALSE, db |-> d, val |-> "InvalidValueBytes"]
    ELSE IF /\ age_key(parse_id_value(d[id_key(id)]).next, id) \in DOMAIN d
            /\ age_value_invalid(d[age_key(parse_id_value(d[id_key(id)]).next, id)])
    THEN [ok |-> FALSE, db |-> d, val |-> "InvalidValueBytes"]
    ELSE prioritize(d, id, default_target_age)

finish_tx(d, id, default_target_age, t) ==
    IF id_key(id) \in DOMAIN d /\ id_value_invalid(d[id_key(id)])
    THEN [ok |-> FALSE, db |-> d, val |-> "InvalidValueBytes"]
    ELSE finish(d, id, default_target_age, t)

delete_tx(d, id) ==
    IF id_key(id) \in DOMAIN d /\ id_value_invalid(d[id_key(id)])
    THEN [ok |-> FALSE, db |-> d, val |-> "InvalidValueBytes"]
    ELSE delete(d, id)

\* The cut key is a prefix of every priority key: the scan meets it first.
get_next_tx(d, count, min_age, min_running, t) ==
    IF CutKey \in DOMAIN d
    THEN [ok |-> FALSE, db |-> d, val |-> "panic"]
    ELSE IF scan_error(d, SortedKeys(DOMAIN d), count, min_age, min_running, t) # "none"
    THEN [ok |-> FALSE, db |-> d, val |-> "InvalidValueBytes"]
    ELSE get_next(d, count, min_age, min_running, t)

\* ============================================================ archive.rs
HEADER_LEN == 28
MAX_ENTRY_LEN == 1073741823

\* u32::MAX.to_be_bytes(), the header's mark of a side that was not observed.
U32MaxBytes == <<255, 255, 255, 255>>

\* A Change is [addition_ids, removal_ids]; NoChange stands for Option::None.
NoChange == [none |-> TRUE]

Change(addition_ids, removal_ids) ==
    [addition_ids |-> addition_ids, removal_ids |-> removal_ids]

Batch(timestamp, user_id, follower_change, followed_change) ==
    [timestamp |-> timestamp, user_id |-> user_id,
     follower_change |-> follower_change, followed_change |-> followed_change]

\* v.to_be_bytes() of a u32 and of a u64 (v below 2^31).
U32BE(v) == <<(v \div 16777216) % 256, (v \div 65536) % 256, (v \div 256) % 256, v % 256>>

U64BE(v) == <<0, 0, 0, 0>> \o U32BE(v)

\* u32::from_be_bytes and u64::from_be_bytes, of bytes that stand for a
\* number below 2^31.
U32FromBE(b) == b[1] * 16777216 + b[2] * 65536 + b[3] * 256 + b[4]

U64FromBE(b) == U32FromBE(SubSeq(b, 5, 8))

\* write_varint: seven bits to the byte, the low bits first, the high bit
\* set on every byte but the last.
RECURSIVE write_varint(_)
write_varint(v) ==
    IF v < 128 THEN <<v>> ELSE <<128 + (v % 128)>> \o write_varint(v \div 128)

\* read_varint: the value and the bytes that follow it; not ok when the
\* bytes end before the last byte of the value.
RECURSIVE read_varint(_)
read_varint(bytes) ==
    IF bytes = <<>> THEN [ok |-> FALSE, value |-> 0, rest |-> <<>>]
    ELSE IF Head(bytes) < 128
    THEN [ok |-> TRUE, value |-> Head(bytes), rest |-> Tail(bytes)]
    ELSE LET r == read_varint(Tail(bytes))
         IN [ok |-> r.ok, value |-> (Head(bytes) - 128) + 128 * r.value,
             rest |-> r.rest]

RECURSIVE write_deltas(_)
write_deltas(values) ==
    IF Len(values) < 2 THEN <<>>
    ELSE write_varint(values[2] - values[1]) \o write_deltas(Tail(values))

\* write_all writing every value as it is, not as its distance from the last.
RECURSIVE write_all_absolute(_)
write_all_absolute(values) ==
    IF values = <<>> THEN <<>>
    ELSE write_varint(Head(values)) \o write_all_absolute(Tail(values))

write_all(values) ==
    IF values = <<>> THEN <<>>
    ELSE write_varint(values[1]) \o write_deltas(values)

LenBytes(change) ==
    IF change = NoChange
    THEN U32MaxBytes \o U32MaxBytes
    ELSE U32BE(Len(change.addition_ids)) \o U32BE(Len(change.removal_ids))

IdBytes(change) ==
    IF change = NoChange THEN <<>>
    ELSE write_all(change.addition_ids) \o write_all(change.removal_ids)

\* The bytes write_batches writes for one batch.
write_batch(batch) ==
    U32BE(Secs(batch.timestamp)) \o U64BE(batch.user_id)
        \o LenBytes(batch.follower_change) \o LenBytes(batch.followed_change)
        \o IdBytes(batch.follower_change) \o IdBytes(batch.followed_change)

RECURSIVE write_batches(_)
write_batches(batches) ==
    IF batches = <<>> THEN <<>>
    ELSE write_batch(Head(batches)) \o write_batches(Tail(batches))

\* A header length of a side that is read: NoLens for None.
NoLens == <<>>

SideLens(addition_len, removal_len) ==
    IF addition_len = U32MaxBytes
           \/ addition_len[1] >= 128 \/ U32FromBE(addition_len) > MAX_ENTRY_LEN
           \/ removal_len[1] >= 128 \/ U32FromBE(removal_len) > MAX_ENTRY_LEN
    THEN NoLens
    ELSE <<U32FromBE(addition_len), U32FromBE(removal_len)>>

validate_header_lengths(follower_addition_len, follower_removal_len, followed_addition_len, followed_removal_len) ==
    LET follower_addition_empty == follower_addition_len = U32MaxBytes
        follower_removal_empty == follower_removal_len = U32MaxBytes
        followed_addition_empty == followed_addition_len = U32MaxBytes
        followed_removal_empty == followed_removal_len = U32MaxBytes
    IN IF \/ follower_addition_empty # follower_removal_empty
          \/ followed_addition_empty # followed_removal_empty
          \/ follower_addition_empty /\ followed_addition_empty
       THEN [ok |-> FALSE]
       ELSE [ok |-> TRUE,
             follower_lens |-> SideLens(follower_addition_len, follower_removal_len),
             followed_lens |-> SideLens(followed_addition_len, followed_removal_len)]

\* read_header: "end" when fewer than HEADER_LEN bytes are left.
read_header(bytes) ==
    IF Len(bytes) < HEADER_LEN THEN [kind |-> "end"]
    ELSE LET lens == validate_header_lengths(
                         SubSeq(bytes, 13, 16), SubSeq(bytes, 17, 20),
                         SubSeq(bytes, 21, 24), SubSeq(bytes, 25, 28))
         IN IF ~lens.ok THEN [kind |-> "InvalidHeader"]
            ELSE [kind |-> "header",
                  timestamp |-> U32FromBE(SubSeq(bytes, 1, 4)) * TicksPerSec,
                  user_id |-> U64FromBE(SubSeq(bytes, 5, 12)),
                  follower_lens |-> lens.follower_lens,
                  followed_lens |-> lens.followed_lens,
                  rest |-> SubSeq(bytes, HEADER_LEN + 1, Len(bytes))]

RECURSIVE read_ids(_, _, _)
read_ids(bytes, len, last) ==
    IF len = 0 THEN [ok |-> TRUE, ids |-> <<>>, rest |-> bytes]
    ELSE LET v == read_varint(bytes)
             r == read_ids(v.rest, len - 1, last + v.value)
         IN IF ~v.ok THEN [ok |-> FALSE, ids |-> <<>>, rest |-> <<>>]
            ELSE [ok |-> r.ok, ids |-> <<last + v.value>> \o r.ids, rest |-> r.rest]

is_increasing(ids) == \A i \in 2..Len(ids) : ids[i - 1] < ids[i]

\* One side of a record: its Change (NoChange for None) and the bytes left.
read_change(bytes, lens) ==
    IF lens = NoLens THEN [kind |-> "ok", change |-> NoChange, rest |-> bytes]
    ELSE LET a == read_ids(bytes, lens[1], 0)
             r == read_ids(a.rest, lens[2], 0)
         IN IF ~a.ok \/ ~r.ok THEN [kind |-> "Io"]
            ELSE IF ~is_increasing(a.ids) \/ ~is_increasing(r.ids)
            THEN [kind |-> "UnsortedIds"]
            ELSE [kind |-> "ok", change |-> Change(a.ids, r.ids), rest |-> r.rest]

\* FollowReader::next: "end", an error, or a batch and the bytes left.
FollowReader_next(bytes) ==
    LET h == read_header(bytes)
        f == read_change(h.rest, h.follower_lens)
        g == read_change(f.rest, h.followed_lens)
    IN IF h.kind # "header" THEN [kind |-> h.kind]
       ELSE IF f.kind # "ok" THEN [kind |-> f.kind]
       ELSE IF g.kind # "ok" THEN [kind |-> g.kind]
       ELSE [kind |-> "batch",
             batch |-> Batch(h.timestamp, h.user_id, f.change, g.change),
             rest |-> g.rest]

\* Collecting a FollowReader: the batches read, and the error that ended
\* the reading ("end" when the reader came to the end of the bytes).
RECURSIVE read_batches(_)
read_batches(bytes) ==
    LET n == FollowReader_next(bytes)
        r == read_batches(n.rest)
    IN IF n.kind # "batch" THEN [batches |-> <<>>, end |-> n.kind]
       ELSE [batches |-> <<n.batch>> \o r.batches, end |-> r.end]

\* sort_unstable of a set of ids collected into a Vec.
RECURSIVE sorted(_)
sorted(S) ==
    IF S = {} THEN <<>>
    ELSE LET m == CHOOSE x \in S : \A y \in S : x <= y
         IN <<m>> \o sorted(S \ {m})

\* ============================================================== store.rs
\* DateTime::<Utc>::MIN_UTC: a time before every reading of the clock.
MIN_UTC == -262144

trunc_subsecs(t) == Secs(t) * TicksPerSec

date_naive(t) == Secs(t) \div SecsPerDay

UserState_new(last_update) ==
    [followers |-> {}, following |-> {}, last_update |-> last_update,
     expiration |-> None]

NoUsers == <<>>

\* users.entry(user_id).or_insert_with(|| UserState::new(last_update))
or_insert_with(us, user_id, last_update) ==
    IF user_id \in DOMAIN us THEN us
    ELSE [u \in DOMAIN us \cup {user_id} |->
             IF u = user_id THEN UserState_new(last_update) ELSE us[u]]

\* make_batch taking every user for an unseen one.
make_batch_all_additions(us, user_id, follower_ids, following_ids, t) ==
    Batch(trunc_subsecs(t), user_id,
          Change(sorted(follower_ids), <<>>),
          Change(sorted(following_ids), <<>>))

make_batch(us, user_id, follower_ids, following_ids, t) ==
    IF user_id \notin DOMAIN us
    THEN Batch(trunc_subsecs(t), user_id,
               Change(sorted(follower_ids), <<>>),
               Change(sorted(following_ids), <<>>))
    ELSE Batch(trunc_subsecs(t), user_id,
               Change(sorted(follower_ids \ us[user_id].followers),
                      sorted(us[user_id].followers \ follower_ids)),
               Change(sorted(following_ids \ us[user_id].following),
                      sorted(us[user_id].following \ following_ids)))

\* The loop over addition_ids: it returns at the first id that is already in
\* the set, with the ids before it inserted.
RECURSIVE insert_all(_, _)
insert_all(set, ids) ==
    IF ids = <<>> THEN [ok |-> TRUE, set |-> set, id |-> None]
    ELSE IF Head(ids) \in set THEN [ok |-> FALSE, set |-> set, id |-> Head(ids)]
    ELSE insert_all(set \cup {Head(ids)}, Tail(ids))

\* The loop over removal_ids taking no notice of an id that is not in the set.
remove_all_lenient(set, ids) ==
    [ok |-> TRUE, set |-> set \ {ids[i] : i \in DOMAIN ids}, id |-> None]

\* The loop over removal_ids: it returns at the first id that is not in the
\* set, with the ids before it removed.
RECURSIVE remove_all(_, _)
remove_all(set, ids) ==
    IF ids = <<>> THEN [ok |-> TRUE, set |-> set, id |-> None]
    ELSE IF Head(ids) \notin set THEN [ok |-> FALSE, set |-> set, id |-> Head(ids)]
    ELSE remove_all(set \ {Head(ids)}, Tail(ids))

\* The two loops of update over one side.
apply_change(set, change) ==
    LET added == insert_all(set, change.addition_ids)
        removed == remove_all(added.set, change.removal_ids)
    IN IF change = NoChange THEN [error |-> "none", set |-> set, source_id |-> None]
       ELSE IF ~added.ok
       THEN [error |-> "DuplicateId", set |-> added.set, source_id |-> added.id]
       ELSE IF ~removed.ok
       THEN [error |-> "MissingId", set |-> removed.set, source_id |-> removed.id]
       ELSE [error |-> "none", set |-> removed.set, source_id |-> None]

\* update where the removals of the follower side are left out.
update_keeping_removed(us, batch, last_update) ==
    LET us1 == or_insert_with(us, batch.user_id, batch.timestamp)
        st == us1[batch.user_id]
        followers == IF batch.follower_change = NoChange
                     THEN [error |-> "none", set |-> st.followers, source_id |-> None]
                     ELSE apply_change(st.followers,
                              Change(batch.follower_change.addition_ids, <<>>))
        following == apply_change(st.following, batch.followed_change)
    IN IF last_update # None /\ last_update # st.last_update
       THEN [error |-> "StaleBatch", target_id |-> None, source_id |-> None,
             users |-> us1]
       ELSE [error |-> IF followers.error # "none" THEN followers.error
                       ELSE following.error,
             target_id |-> IF followers.error = "none" /\ following.error = "none"
                           THEN None ELSE batch.user_id,
             source_id |-> IF followers.error # "none" THEN followers.source_id
                           ELSE following.source_id,
             users |-> [us1 EXCEPT ![batch.user_id] =
                 [followers |-> followers.set,
                  following |-> IF followers.error # "none" THEN st.following
                                ELSE following.set,
                  last_update |-> batch.timestamp,
                  expiration |-> None]]]

\* State::update: the error ("none" for Ok), the target_id and source_id of
\* a DuplicateId or MissingId, and the users it leaves.
update(us, batch, last_update) ==
    LET us1 == or_insert_with(us, batch.user_id, batch.timestamp)
        st == us1[batch.user_id]
        followers == apply_change(st.followers, batch.follower_change)
        following == apply_change(st.following, batch.followed_change)
    IN IF last_update # None /\ last_update # st.last_update
       THEN [error |-> "StaleBatch", target_id |-> None, source_id |-> None,
             users |-> us1]
       ELSE [error |-> IF followers.error # "none" THEN followers.error
                       ELSE following.error,
             target_id |-> IF followers.error = "none" /\ following.error = "none"
                           THEN None ELSE batch.user_id,
             source_id |-> IF followers.error # "none" THEN followers.source_id
                           ELSE following.source_id,
             users |-> [us1 EXCEPT ![batch.user_id] =
                 [followers |-> followers.set,
                  following |-> IF followers.error # "none" THEN st.following
                                ELSE following.set,
                  last_update |-> batch.timestamp,
                  expiration |-> None]]]

\* check_out that takes a lease for held after its expiration too.
check_out_no_expiry(us, user_id, estimated_run_duration, t) ==
    LET us1 == or_insert_with(us, user_id, MIN_UTC)
        st == us1[user_id]
    IN IF st.expiration = None
       THEN [val |-> st.last_update,
             users |-> [us1 EXCEPT ![user_id].expiration =
                           trunc_subsecs(t) + estimated_run_duration * TicksPerSec]]
       ELSE [val |-> None, users |-> us1]

\* check_out that grants the lease whatever the expiration.
check_out_unguarded(us, user_id, estimated_run_duration, t) ==
    LET us1 == or_insert_with(us, user_id, MIN_UTC)
    IN [val |-> us1[user_id].last_update,
        users |-> [us1 EXCEPT ![user_id].expiration =
                      trunc_subsecs(t) + estimated_run_duration * TicksPerSec]]

\* Store::check_out: val is the last update, or None when the user is leased.
check_out(us, user_id, estimated_run_duration, t) ==
    LET us1 == or_insert_with(us, user_id, MIN_UTC)
        st == us1[user_id]
    IN IF st.expiration = None \/ ~(st.expiration > trunc_subsecs(t))
       THEN [val |-> st.last_update,
             users |-> [us1 EXCEPT ![user_id].expiration =
                           trunc_subsecs(t) + estimated_run_duration * TicksPerSec]]
       ELSE [val |-> None, users |-> us1]

\* undo_check_out that clears the lease whatever the last_update.
undo_check_out_unguarded(us, user_id, last_update) ==
    IF user_id \notin DOMAIN us
    THEN [error |-> "UntrackedId", val |-> FALSE, users |-> us]
    ELSE [error |-> "none", val |-> TRUE,
          users |-> [us EXCEPT ![user_id].expiration = None]]

undo_check_out(us, user_id, last_update) ==
    IF user_id \notin DOMAIN us
    THEN [error |-> "UntrackedId", val |-> FALSE, users |-> us]
    ELSE IF us[user_id].last_update = last_update
    THEN [error |-> "none", val |-> TRUE,
          users |-> [us EXCEPT ![user_id].expiration = None]]
    ELSE [error |-> "none", val |-> FALSE, users |-> us]

\* ----------------------------------------------- writing and reading back
\* Ids of one, two and three varint bytes, with deltas of one and two.
CodecIds == {0, 127, 128, 16384}

\* The strictly increasing lists of at most MaxLen ids.
IncreasingLists == {sorted(S) : S \in {T \in SUBSET CodecIds : Cardinality(T) <= MaxLen}}

CodecChanges == {NoChange} \cup {Change(a, r) : a, r \in IncreasingLists}

\* Timestamps (of whole seconds) and user ids of one byte and of more.
CodecHeaders == {<<1 * TicksPerSec, 7>>, <<66000 * TicksPerSec, 300>>}

CodecBatches ==
    {Batch(h[1], h[2], f, g) : h \in CodecHeaders, f \in CodecChanges, g \in CodecChanges}

CodecIdle == [pc |-> "idle"]

\* write_batches on the one batch, into an empty writer.
WriteBatches ==
    /\ codec.pc = "new"
    /\ codec' = [codec EXCEPT !.pc = "written",
                              !.bytes = write_batches(<<codec.batch>>),
                              !.unread = write_batches(<<codec.batch>>)]
    /\ UNCHANGED <<now, db, ret, hist, fold, storeVars, sessionVars>>

\* One call of FollowReader::next on a reader of the bytes written.
ReadNext ==
    /\ codec.pc = "written"
    /\ LET n == FollowReader_next(codec.unread)
       IN codec' = IF n.kind = "batch"
                   THEN [codec EXCEPT !.out = Append(codec.out, n.batch),
                                      !.unread = n.rest]
                   ELSE IF n.kind = "end"
                   THEN [codec EXCEPT !.pc = "done"]
                   ELSE [codec EXCEPT !.pc = "failed", !.error = n.kind]
    /\ UNCHANGED <<now, db, ret, hist, fold, storeVars, sessionVars>>

\* ------------------------------------------------- one State, one batch
\* The user and the ids of the worked example; one id on the following side.
FoldUser == 7
FoldIds == {1, 2, 3, 4}
FoldFollowing == {1}
FoldTimes == {1000 * TicksPerSec, 2000 * TicksPerSec}

\* The States: the user unseen, or seen with any sets.
FoldStates ==
    {NoUsers} \cup
    {[u \in {FoldUser} |->
         [followers |-> f, following |-> g, last_update |-> l, expiration |-> None]] :
     f \in SUBSET FoldIds, g \in SUBSET FoldFollowing,
     l \in {MIN_UTC, 1000 * TicksPerSec}}

\* None, and the changes of at most MaxChange ids over a set of ids.
FoldChanges(ids) ==
    {NoChange} \cup
    {Change(sorted(p[1]), sorted(p[2])) :
         p \in {q \in (SUBSET ids) \X (SUBSET ids) :
                    Cardinality(q[1]) + Cardinality(q[2]) <= MaxChange}}

FoldBatches ==
    {Batch(t, FoldUser, f, g) :
        t \in FoldTimes, f \in FoldChanges(FoldIds), g \in FoldChanges(FoldFollowing)}

NoBatch == [none |-> TRUE]
NoIds == {}
FoldIdle == [pc |-> "idle"]

\* The last_update check_out gave for a user of a State.
LastUpdate(us, user_id) ==
    IF user_id \in DOMAIN us THEN us[user_id].last_update ELSE MIN_UTC

\* Store::make_batch on the ids observed.
FoldMakeBatch ==
    /\ fold.pc = "observed"
    /\ fold' = [fold EXCEPT !.pc = "made",
                            !.batch = make_batch(fold.users, FoldUser,
                                          fold.follower_ids, fold.following_ids, now)]
    /\ UNCHANGED <<now, db, ret, hist, codec, storeVars, sessionVars>>

\* State::update_and_write, or State::update with no last_update as
\* Store::open calls it: update, then write and flush when update is Ok.
FoldUpdate ==
    /\ fold.pc = "made"
    /\ LET r == update(fold.users, fold.batch, fold.last_update)
       IN fold' = [fold EXCEPT !.pc = "updated",
                               !.before = fold.users,
                               !.users = r.users,
                               !.error = r.error,
                               !.target_id = r.target_id,
                               !.source_id = r.source_id,
                               !.written = IF r.error = "none" /\ fold.last_update # None
                                           THEN write_batch(fold.batch)
                                           ELSE <<>>]
    /\ UNCHANGED <<now, db, ret, hist, codec, storeVars, sessionVars>>

\* ----------------------------------------------------- the Store at work
\* The order of batches.sort(): by timestamp, then by user id.
BatchLess(a, b) ==
    \/ a.timestamp < b.timestamp
    \/ a.timestamp = b.timestamp /\ a.user_id < b.user_id

RECURSIVE sort_batches(_)
sort_batches(bs) ==
    IF bs = <<>> THEN <<>>
    ELSE LET rest == sort_batches(SubSeq(bs, 1, Len(bs) - 1))
             last == bs[Len(bs)]
             k == Cardinality({i \in DOMAIN rest : ~BatchLess(last, rest[i])})
         IN SubSeq(rest, 1, k) \o <<last>> \o SubSeq(rest, k + 1, Len(rest))

\* The batches of a date, in the order they were read.
RECURSIVE OnDate(_, _)
OnDate(bs, date) ==
    IF bs = <<>> THEN <<>>
    ELSE IF date_naive(Head(bs).timestamp) = date
    THEN <<Head(bs)>> \o OnDate(Tail(bs), date)
    ELSE OnDate(Tail(bs), date)

\* The first of the paths of by_path that exists: the paths are in the
\* order of their dates, and a path is named by its date.
first_existing(dates, pst) ==
    CHOOSE d \in dates \cap DOMAIN pst : \A e \in dates \cap DOMAIN pst : d <= e

\* archive that writes the past files and rewrites the current file with
\* every batch it read, those of the days before too.
archive_batches_keeping_all(flushed, read, pst, current_date) ==
    LET dates == {date_naive(read.batches[i].timestamp) : i \in DOMAIN read.batches}
                     \ {current_date}
    IN IF read.end # "end" \/ dates = {}
       THEN [error |-> IF read.end # "end" THEN read.end ELSE "none",
             val |-> None, path |-> None,
             writer |-> <<>>, current |-> flushed, past |-> pst]
       ELSE IF dates \cap DOMAIN pst # {}
       THEN [error |-> "PastFileCollision", val |-> None,
             path |-> first_existing(dates, pst),
             writer |-> <<>>, current |-> flushed, past |-> pst]
       ELSE [error |-> "none",
             val |-> Len(read.batches) - Len(OnDate(read.batches, current_date)),
             path |-> None,
             writer |-> write_batches(sort_batches(read.batches)),
             current |-> <<>>,
             past |-> [d \in DOMAIN pst \cup dates |->
                          IF d \in dates
                          THEN write_batches(sort_batches(OnDate(read.batches, d)))
                          ELSE pst[d]]]

\* archive that finds a past file in its way, writes over it and the
\* current file all the same, and then returns the error.
archive_batches_overwriting(flushed, read, pst, current_date) ==
    LET dates == {date_naive(read.batches[i].timestamp) : i \in DOMAIN read.batches}
                     \ {current_date}
    IN IF read.end # "end" \/ dates = {}
       THEN [error |-> IF read.end # "end" THEN read.end ELSE "none",
             val |-> None, path |-> None,
             writer |-> <<>>, current |-> flushed, past |-> pst]
       ELSE [error |-> IF dates \cap DOMAIN pst # {} THEN "PastFileCollision"
                       ELSE "none",
             val |-> IF dates \cap DOMAIN pst # {} THEN None
                     ELSE Len(read.batches) - Len(OnDate(read.batches, current_date)),
             path |-> IF dates \cap DOMAIN pst # {} THEN first_existing(dates, pst)
                      ELSE None,
             writer |-> write_batches(sort_batches(OnDate(read.batches, current_date))),
             current |-> <<>>,
             past |-> [d \in DOMAIN pst \cup dates |->
                          IF d \in dates
                          THEN write_batches(sort_batches(OnDate(read.batches, d)))
                          ELSE pst[d]]]

\* Store::archive once the writer is flushed and the current file is read:
\* flushed holds the bytes of the file, read the batches read from it.
\* path is the past file a PastFileCollision names.
archive_batches(flushed, read, pst, current_date) ==
    LET dates == {date_naive(read.batches[i].timestamp) : i \in DOMAIN read.batches}
                     \ {current_date}
    IN IF read.end # "end"
       THEN [error |-> read.end, val |-> None, path |-> None,
             writer |-> <<>>, current |-> flushed, past |-> pst]
       ELSE IF dates = {}
       THEN [error |-> "none", val |-> None, path |-> None,
             writer |-> <<>>, current |-> flushed, past |-> pst]
       ELSE IF dates \cap DOMAIN pst # {}
       THEN [error |-> "PastFileCollision", val |-> None,
             path |-> first_existing(dates, pst),
             writer |-> <<>>, current |-> flushed, past |-> pst]
       ELSE [error |-> "none",
             val |-> Len(read.batches) - Len(OnDate(read.batches, current_date)),
             path |-> None,
             writer |-> write_batches(sort_batches(OnDate(read.batches, current_date))),
             current |-> <<>>,
             past |-> [d \in DOMAIN pst \cup dates |->
                          IF d \in dates
                          THEN write_batches(sort_batches(OnDate(read.batches, d)))
                          ELSE pst[d]]]

\* Store::archive at time t: the error ("none" for Ok), the count (None for
\* Ok(None)), and the writer and the files it leaves.  The writer is
\* flushed first; the batches of today are written to the new writer of the
\* new current file and stay in it.
archive(w, cur, pst, t) ==
    archive_batches(cur \o w, read_batches(cur \o w), pst, date_naive(t))

\* ----------------------------------------------------------- Store::open
\* The batches of the files of dates, a file after a file, up to the first
\* record that cannot be read: end is "end" when every file was read whole.
RECURSIVE read_files(_, _)
RECURSIVE read_files_after(_, _, _)
read_files(pst, dates) ==
    IF dates = <<>> THEN [batches |-> <<>>, end |-> "end"]
    ELSE read_files_after(read_batches(pst[Head(dates)]), pst, Tail(dates))

read_files_after(first, pst, dates) ==
    IF first.end # "end" THEN first
    ELSE [batches |-> first.batches \o read_files(pst, dates).batches,
          end |-> read_files(pst, dates).end]

\* Store::past_batches: the past files in the order of their dates.
past_batches(pst) == read_files(pst, sorted(DOMAIN pst))

\* Store::current_batches: the batches of the current file, sorted.
current_batches(cur) ==
    [batches |-> sort_batches(read_batches(cur).batches), end |-> read_batches(cur).end]

\* The loops of Store::open: state.update(&batch, None)? on batch after
\* batch, up to the first that fails.
RECURSIVE replay(_, _)
RECURSIVE replay_after(_, _)
replay(us, batches) ==
    IF batches = <<>>
    THEN [error |-> "none", target_id |-> None, source_id |-> None, users |-> us]
    ELSE replay_after(update(us, Head(batches), None), Tail(batches))

replay_after(r, batches) ==
    IF r.error # "none" THEN r ELSE replay(r.users, batches)

\* The last loop of Store::open: an Err carries no store.
open_current(r) == IF r.error # "none" THEN [r EXCEPT !.users = NoUsers] ELSE r

\* Store::open once the files are read: cur and pst hold what
\* current_batches and past_batches gave, r the replay of the past batches.
\*  users is NoUsers when open returns an Err.
open_replayed(cur, pst, r) ==
    IF cur.end # "end"
    THEN [error |-> cur.end, target_id |-> None, source_id |-> None, users |-> NoUsers]
    ELSE IF r.error # "none" THEN [r EXCEPT !.users = NoUsers]
    ELSE IF pst.end # "end"
    THEN [error |-> pst.end, target_id |-> None, source_id |-> None, users |-> NoUsers]
    ELSE open_current(replay(r.users, cur.batches))

open(pst, cur) ==
    open_replayed(current_batches(cur), past_batches(pst),
                  replay(NoUsers, past_batches(pst).batches))

\* The batches of the files Store::open is given: of one user, the follower
\* side None or a change over two ids, the followed side with no ids.
OpenIds == {1, 2}
OpenBatches ==
    {Batch(t, FoldUser, f, Change(<<>>, <<>>)) :
        t \in FoldTimes, f \in FoldChanges(OpenIds)}

\* The files of a store that holds b1 and b2: b1 in the past file of its
\* date or, before b2, in the current file.
OpenFiles(b1, b2, archived) ==
    IF archived
    THEN [past |-> [d \in {date_naive(b1.timestamp)} |-> write_batches(<<b1>>)],
          current |-> write_batches(<<b2>>)]
    ELSE [past |-> <<>>, current |-> write_batches(<<b1, b2>>)]

\* The States with the user leased or not, and the user unseen.
LeasedStates ==
    {NoUsers} \cup
    {[u \in {FoldUser} |->
         [followers |-> f, following |-> {}, last_update |-> l, expiration |-> x]] :
     f \in SUBSET OpenIds, l \in {MIN_UTC, 1000 * TicksPerSec},
     x \in {None, 1060 * TicksPerSec}}

\* Store::undo_check_out on the State of fold.
FoldUndoCheckOut ==
    /\ fold.pc = "leased"
    /\ \E r \in {undo_check_out(fold.users, fold.user_id, fold.last_update)} :
          fold' = [fold EXCEPT !.pc = "undone",
                               !.users = r.users,
                               !.error = r.error,
                               !.val = r.val]
    /\ UNCHANGED <<now, db, ret, hist, codec, storeVars, sessionVars>>

\* Store::open on the files of fold.
FoldOpen ==
    /\ fold.pc = "closed"
    /\ \E r \in {open(fold.past, fold.current)} :
          fold' = [fold EXCEPT !.pc = IF r.error = "none" THEN "opened" ELSE "failed",
                               !.users = r.users,
                               !.error = r.error,
                               !.target_id = r.target_id,
                               !.source_id = r.source_id]
    /\ UNCHANGED <<now, db, ret, hist, codec, storeVars, sessionVars>>

\* The two Session loops, one for each TokenType.
Workers == {"App", "User"}
StoreUsers == {FoldUser}
\* What estimate_run_duration gives, in seconds.
RunDurations == {1, 2}
\* The followers and the followed a scrape can observe.
ScrapedFollowers == SUBSET {1}
ScrapedFollowing == {{}}

Idle ==
    [pc |-> "idle", user_id |-> 0, last_update |-> None, expiration |-> None,
     batch |-> NoBatch]

\* The batches written so far, in the files and in the writer.
Written == Len(read_batches(current \o writer).batches)
               + Cardinality(DOMAIN past)

\* The clock of the Store moves on.
StoreTick ==
    /\ Secs(now) < MaxSec
    /\ now' = now + 1
    /\ UNCHANGED <<db, ret, hist, codec, fold, storeVars, sessionVars>>

\* Session::scrape up to its await: Store::check_out.
CheckOut(w, user_id, estimated_run_duration) ==
    /\ workers[w].pc = "idle"
    /\ LET r == check_out(users, user_id, estimated_run_duration, now)
       IN /\ users' = r.users
          /\ ret' = [op |-> "check_out", user_id |-> user_id, val |-> r.val]
          /\ workers' = IF r.val = None THEN workers
                        ELSE [workers EXCEPT ![w] =
                                 [pc |-> "scraping", user_id |-> user_id,
                                  last_update |-> r.val,
                                  expiration |-> r.users[user_id].expiration,
                                  batch |-> NoBatch]]
          /\ granted' = IF r.val = None THEN granted
                       ELSE [granted EXCEPT ![user_id] = r.users[user_id].expiration]
    /\ UNCHANGED <<now, db, hist, codec, fold, writer, current, past, sessionVars>>

\* scrape_follows came back with an unavailable status: Store::undo_check_out.
UndoCheckOut(w) ==
    /\ workers[w].pc = "scraping"
    /\ LET r == undo_check_out(users, workers[w].user_id, workers[w].last_update)
       IN /\ users' = r.users
          /\ ret' = [op |-> "undo_check_out", user_id |-> workers[w].user_id,
                     error |-> r.error, val |-> r.val]
          /\ granted' = IF r.val THEN [granted EXCEPT ![workers[w].user_id] = None]
                       ELSE granted
    /\ workers' = [workers EXCEPT ![w] = Idle]
    /\ UNCHANGED <<now, db, hist, codec, fold, writer, current, past, sessionVars>>

\* scrape_follows came back with the ids: Store::make_batch.
MakeBatch(w, follower_ids, following_ids) ==
    /\ workers[w].pc = "scraping"
    /\ Written < MaxBatches
    /\ workers' = [workers EXCEPT ![w].pc = "made",
                      ![w].batch = make_batch(users, workers[w].user_id,
                                       follower_ids, following_ids, now)]
    /\ ret' = [op |-> "make_batch", user_id |-> workers[w].user_id]
    /\ UNCHANGED <<now, db, hist, codec, fold, users, writer, current, past, granted, sessionVars>>

\* Store::update_and_write: update, and when it is Ok, write and flush.
UpdateAndWrite(w) ==
    /\ workers[w].pc = "made"
    /\ LET r == update(users, workers[w].batch, workers[w].last_update)
       IN /\ users' = r.users
          /\ ret' = [op |-> "update_and_write", user_id |-> workers[w].user_id,
                     error |-> r.error]
          /\ current' = IF r.error = "none"
                        THEN current \o writer \o write_batch(workers[w].batch)
                        ELSE current
          /\ writer' = IF r.error = "none" THEN <<>> ELSE writer
          /\ granted' = IF r.error = "StaleBatch" THEN granted
                       ELSE [granted EXCEPT ![workers[w].user_id] = None]
    /\ workers' = [workers EXCEPT ![w] = Idle]
    /\ UNCHANGED <<now, db, hist, codec, fold, past, sessionVars>>

\* Session::run, first thing: Store::archive.
Archive(w) ==
    /\ workers[w].pc = "idle"
    /\ \E r \in {archive(writer, current, past, now)} :
          /\ writer' = r.writer
          /\ current' = r.current
          /\ past' = r.past
          /\ ret' = [op |-> "archive", date |-> date_naive(now),
                     error |-> r.error, val |-> r.val, path |-> r.path]
    /\ UNCHANGED <<now, db, hist, codec, fold, users, workers, granted, sessionVars>>

\* ------------------------------------------------------------ the history
\* hist[id].leased: the time of the last get_next that returned id, None
\* once a finish on id has committed.  hist[id].finished: the time of the
\* last finish on id, None once a prioritize on id has committed;
\* hist[id].inserted: an insert on id has committed since that finish.
\* A specification records the lease times, the finish times, or neither.
\* hist[id].previous: the time of the lease before the last one.
NoHist == [leased |-> None, previous |-> None, finished |-> None, inserted |-> FALSE]

\* ----------------------------------------------------------------- actions
Tick ==
    /\ now < MaxTick
    /\ now' = now + 1
    /\ UNCHANGED <<db, ret, hist, outsideAge>>

Insert(id, last, target_age, leases, finishes) ==
    LET r == insert(db, id, last, target_age)
    IN /\ db' = r.db
       /\ ret' = [op |-> "insert", id |-> id, last |-> last,
                  target_age |-> target_age, ok |-> r.ok, val |-> r.val]
       /\ hist' = IF r.ok /\ finishes /\ hist[id].finished # None
                  THEN [hist EXCEPT ![id].inserted = TRUE]
                  ELSE hist
       /\ UNCHANGED <<now, outsideAge>>

Prioritize(id, default_target_age, leases, finishes) ==
    LET r == prioritize(db, id, default_target_age)
    IN /\ db' = r.db
       /\ ret' = [op |-> "prioritize", id |-> id,
                  default_target_age |-> default_target_age,
                  ok |-> r.ok, val |-> r.val]
       /\ hist' = IF r.ok /\ finishes
                  THEN [hist EXCEPT ![id].finished = None, ![id].inserted = FALSE]
                  ELSE hist
       /\ UNCHANGED <<now, outsideAge>>

Finish(id, default_target_age, leases, finishes) ==
    LET r == finish(db, id, default_target_age, now)
    IN /\ db' = r.db
       /\ ret' = [op |-> "finish", id |-> id,
                  default_target_age |-> default_target_age,
                  ok |-> r.ok, val |-> r.val]
       /\ hist' = IF r.ok
                  THEN [hist EXCEPT ![id] =
                           [leased |-> None,
                            previous |-> None,
                            finished |-> IF finishes THEN now ELSE None,
                            inserted |-> FALSE]]
                  ELSE hist
       /\ UNCHANGED <<now, outsideAge>>

Delete(id) ==
    LET r == delete(db, id)
    IN /\ db' = r.db
       /\ ret' = [op |-> "delete", id |-> id, ok |-> r.ok, val |-> r.val]
       /\ UNCHANGED <<now, hist, outsideAge>>

GetNext(count, min_age, min_running, leases, finishes) ==
    LET r == get_next(db, count, min_age, min_running, now)
        got == IF r.ok THEN {r.val[i] : i \in 1..Len(r.val)} ELSE {}
    IN /\ db' = r.db
       /\ ret' = [op |-> "get_next", count |-> count, min_age |-> min_age,
                  min_running |-> min_running, ok |-> r.ok, val |-> r.val]
       /\ hist' = [i \in Ids |->
                     IF leases /\ i \in got
                     THEN [hist[i] EXCEPT !.leased = now, !.previous = hist[i].leased]
                     ELSE hist[i]]
       /\ UNCHANGED <<now, outsideAge>>

\* Store::open on an empty directory.
StoreOpen ==
    /\ users = NoUsers
    /\ writer = <<>>
    /\ current = <<>>
    /\ past = <<>>
    /\ workers = [w \in Workers |-> Idle]
    /\ granted = [u \in StoreUsers |-> None]

\* Session::open: an empty deactivation file, the Downloader not running.
NoDeactivations == <<>>
DownloadIdle == [pc |-> "idle", ids |-> <<>>, count |-> 0]

\* The loops try_join! runs: run_loop and download_loop, for each TokenType.
RunLoops == {"run App", "run User"}
DownloadLoops == {"download App", "download User"}
Iterating == [pc |-> "iterating", high |-> 0, until |-> 0]

\* A TrackedUserDb with no user.
NoTracked == <<>>

SessionOpen ==
    /\ deactivations = NoDeactivations
    /\ download = DownloadIdle
    /\ loops = [l \in RunLoops \cup DownloadLoops |-> Iterating]
    /\ tracked = NoTracked
    /\ failed = {}

AgeOpen ==
    /\ now = FirstTick
    /\ db = EmptyDb
    /\ ret = [op |-> "open"]
    /\ hist = [i \in Ids |-> NoHist]

AgeInit == AgeOpen /\ codec = CodecIdle /\ fold = FoldIdle /\ StoreOpen /\ SessionOpen

AgeNext(leases, finishes) ==
    \/ Tick
    \/ \E id \in Ids, last \in {None, now}, ta \in TargetAges :
          Insert(id, last, ta, leases, finishes)
    \/ \E id \in Ids : Prioritize(id, DefaultTargetAge, leases, finishes)
    \/ \E id \in Ids : Finish(id, DefaultTargetAge, leases, finishes)
    \/ \E id \in Ids : Delete(id)
    \/ \E c \in Counts, a \in Durations, r \in Durations :
          GetNext(c, a, r, leases, finishes)

CodecInit ==
    /\ AgeOpen
    /\ fold = FoldIdle
    /\ StoreOpen
    /\ SessionOpen
    /\ codec \in {[pc |-> "new", batch |-> b, bytes |-> <<>>, unread |-> <<>>,
                   out |-> <<>>, error |-> "none"] : b \in CodecBatches}

CodecNext == WriteBatches \/ ReadNext

\* ------------------------------------------------ reading damaged bytes
\* The sides of the records that are read after damage: None, Some of two
\* empty lists, and Some with ids of one and of three varint bytes.
DecodeChanges == {NoChange, Change(<<>>, <<>>), Change(<<127, 128>>, <<16384>>)}

DecodeBatches ==
    {Batch(1 * TicksPerSec, 7, f, g) :
        f \in DecodeChanges, g \in DecodeChanges} \ {Batch(1 * TicksPerSec, 7, NoChange, NoChange)}

\* The files: one record, or two.
DecodeFiles ==
    {<<b>> : b \in DecodeBatches} \cup {<<a, b>> : a, b \in DecodeBatches}

\* The files whose header is overwritten: their ids are of one byte, so
\* that the bytes of their ids read as a header stay small numbers.
SmallChanges == {NoChange, Change(<<>>, <<>>), Change(<<1, 2>>, <<3>>)}

SmallBatches ==
    {Batch(1 * TicksPerSec, 7, f, g) :
        f \in SmallChanges, g \in SmallChanges} \ {Batch(1 * TicksPerSec, 7, NoChange, NoChange)}

SmallFiles ==
    {<<b>> : b \in SmallBatches} \cup {<<a, b>> : a, b \in SmallBatches}

\* Lengths above MAX_ENTRY_LEN that are not u32::MAX, as header bytes:
\* 2^30, 2^31 and 2^32 - 2.
OverCeiling == {<<64, 0, 0, 0>>, <<128, 0, 0, 0>>, <<255, 255, 255, 254>>}

\* The bytes with the i-th length of the first header replaced.
WithLength(bytes, i, len) ==
    SubSeq(bytes, 1, 12 + 4 * (i - 1)) \o len
        \o SubSeq(bytes, 12 + 4 * i + 1, Len(bytes))

\* A reader on the bytes of a file that was cut short, or whose first
\* header had a length overwritten.
DecodeInit ==
    /\ AgeOpen
    /\ fold = FoldIdle
    /\ StoreOpen
    /\ SessionOpen
    /\ \/ \E file \in DecodeFiles : \E n \in 0..Len(write_batches(file)) :
                codec = [pc |-> "written", damage |-> "cut", file |-> file,
                         bytes |-> SubSeq(write_batches(file), 1, n),
                         unread |-> SubSeq(write_batches(file), 1, n),
                         out |-> <<>>, error |-> "none"]
       \/ \E file \in SmallFiles, i \in 1..4, len \in OverCeiling :
                codec = [pc |-> "written", damage |-> "length", file |-> file,
                         bytes |-> WithLength(write_batches(file), i, len),
                         unread |-> WithLength(write_batches(file), i, len),
                         out |-> <<>>, error |-> "none"]

DecodeNext == ReadNext

\* ------------------------------------------------- a damaged database
\* A last observation of before 1970 and a negative target age: what
\* timestamp_to_u32 and u32::try_from do not convert.
TxLasts == {None, FirstTick, -2 * TicksPerSec}
TxTargetAges == {1, -1}

\* A database with id 1 urgent, and one with id 2 scheduled too; then
\* undamaged, or with the cut key, or with a value of id 1 overwritten.
TxBases ==
    {insert(EmptyDb, 1, None, 1).db,
     finish(insert(EmptyDb, 1, None, 1).db, 2, DefaultTargetAge, FirstTick).db}

TxDbs ==
    TxBases
        \cup {Put(b, CutKey, <<0>>) : b \in TxBases}
        \cup {Put(b, id_key(1), v) : b \in TxBases, v \in BadValues}
        \cup {Put(b, age_key(None, 1), v) : b \in TxBases, v \in BadValues}

\* What an operation returned: its error, "none" for Ok.
TxError(r) == IF r.ok THEN "none" ELSE r.val

\* A panic unwinds main: no operation follows it.
TxRunning == ret.error # "panic"

TxInsert(id, last, target_age) ==
    /\ TxRunning
    /\ \E r \in {insert_tx(db, id, last, target_age)} :
          /\ db' = r.db
          /\ ret' = [op |-> "insert", id |-> id, last |-> last,
                     target_age |-> target_age, ok |-> r.ok, error |-> TxError(r)]
    /\ UNCHANGED <<now, hist, outsideAge>>

TxPrioritize(id, default_target_age) ==
    /\ TxRunning
    /\ \E r \in {prioritize_tx(db, id, default_target_age)} :
          /\ db' = r.db
          /\ ret' = [op |-> "prioritize", id |-> id, last |-> None,
                     target_age |-> default_target_age, ok |-> r.ok,
                     error |-> TxError(r)]
    /\ UNCHANGED <<now, hist, outsideAge>>

TxFinish(id, default_target_age) ==
    /\ TxRunning
    /\ \E r \in {finish_tx(db, id, default_target_age, now)} :
          /\ db' = r.db
          /\ ret' = [op |-> "finish", id |-> id, last |-> None,
                     target_age |-> default_target_age, ok |-> r.ok,
                     error |-> TxError(r)]
    /\ UNCHANGED <<now, hist, outsideAge>>

TxDelete(id) ==
    /\ TxRunning
    /\ \E r \in {delete_tx(db, id)} :
          /\ db' = r.db
          /\ ret' = [op |-> "delete", id |-> id, last |-> None,
                     target_age |-> 0, ok |-> r.ok, error |-> TxError(r)]
    /\ UNCHANGED <<now, hist, outsideAge>>

TxGetNext(count, min_age, min_running) ==
    /\ TxRunning
    /\ \E r \in {get_next_tx(db, count, min_age, min_running, now)} :
          /\ db' = r.db
          /\ ret' = [op |-> "get_next", id |-> 0, last |-> None,
                     target_age |-> 0, ok |-> r.ok, error |-> TxError(r)]
    /\ UNCHANGED <<now, hist, outsideAge>>

TxInit ==
    /\ now = FirstTick
    /\ db \in TxDbs
    /\ ret = [op |-> "open", id |-> 0, last |-> None, target_age |-> 0,
              ok |-> TRUE, error |-> "none"]
    /\ hist = [i \in Ids |-> NoHist]
    /\ codec = CodecIdle /\ fold = FoldIdle /\ StoreOpen /\ SessionOpen

TxNext ==
    \/ \E id \in Ids, last \in TxLasts, a \in TxTargetAges : TxInsert(id, last, a)
    \/ \E id \in Ids, a \in TxTargetAges : TxPrioritize(id, a)
    \/ \E id \in Ids, a \in TxTargetAges : TxFinish(id, a)
    \/ \E id \in Ids : TxDelete(id)
    \/ \E c \in Counts, a \in Durations, r \in Durations : TxGetNext(c, a, r)

StoreInit == AgeOpen /\ codec = CodecIdle /\ fold = FoldIdle /\ StoreOpen /\ SessionOpen

StoreNext ==
    \/ StoreTick
    \/ \E w \in Workers, u \in StoreUsers, d \in RunDurations : CheckOut(w, u, d)
    \/ \E w \in Workers : UndoCheckOut(w)
    \/ \E w \in Workers, f \in ScrapedFollowers, g \in ScrapedFollowing :
          MakeBatch(w, f, g)
    \/ \E w \in Workers : UpdateAndWrite(w)
    \/ \E w \in Workers : Archive(w)

\* Either ids observed for the user, to make a batch of, or a batch given.
FoldInit ==
    /\ AgeOpen
    /\ codec = CodecIdle
    /\ StoreOpen
    /\ SessionOpen
    /\ \E us \in FoldStates :
          \/ \E f \in SUBSET FoldIds, g \in SUBSET FoldFollowing,
                l \in {LastUpdate(us, FoldUser), trunc_subsecs(FirstTick)} :
                fold = [pc |-> "observed", observed |-> TRUE, users |-> us, before |-> us,
                        follower_ids |-> f, following_ids |-> g, batch |-> NoBatch,
                        last_update |-> l, error |-> "none", target_id |-> None,
                        source_id |-> None, written |-> <<>>]
          \/ \E b \in FoldBatches, l \in {None, LastUpdate(us, FoldUser)} :
                fold = [pc |-> "made", observed |-> FALSE, users |-> us, before |-> us,
                        follower_ids |-> NoIds, following_ids |-> NoIds, batch |-> b,
                        last_update |-> l, error |-> "none", target_id |-> None,
                        source_id |-> None, written |-> <<>>]
          \/ /\ us = NoUsers
             /\ \E ls \in LeasedStates, u \in {FoldUser, FoldUser + 1},
                   l \in {MIN_UTC, 1000 * TicksPerSec, 2000 * TicksPerSec} :
                   fold = [pc |-> "leased", observed |-> FALSE, users |-> ls,
                           before |-> ls, user_id |-> u, last_update |-> l,
                           error |-> "none", val |-> FALSE]
          \/ /\ us = NoUsers
             /\ \E b1 \in OpenBatches, b2 \in OpenBatches, archived \in BOOLEAN :
                   fold = [pc |-> "closed", observed |-> FALSE, users |-> NoUsers,
                           batches |-> <<b1, b2>>, archived |-> archived,
                           past |-> OpenFiles(b1, b2, archived).past,
                           current |-> OpenFiles(b1, b2, archived).current,
                           error |-> "none", target_id |-> None, source_id |-> None]

FoldNext == FoldMakeBatch \/ FoldUpdate \/ FoldOpen \/ FoldUndoCheckOut

\* ====================================================== the Downloader
\* MIN_AGE_S and MIN_RUNNING_S of downloader.rs (6 h and 25 min), scaled to
\* the clock.
MIN_AGE_S == 1
MIN_RUNNING_S == 1

\* The status codes of a deactivated and of a suspended account.
GoneStatuses == {50, 63}

\* DeactivationLog::status: None for an id with no entry.
status(log, user_id) == IF user_id \in DOMAIN log THEN log[user_id] ELSE None

\* DeactivationLog::add_all: an entry for every id of updates.
add_all(log, updates) ==
    [id \in DOMAIN log \cup DOMAIN updates |->
        IF id \in DOMAIN updates THEN updates[id] ELSE log[id]]

\* for id in ids { prioritize(id, default_target_age)? }: a transaction for
\* every id, up to the first that fails.
RECURSIVE prioritize_all(_, _, _)
RECURSIVE prioritize_all_after(_, _, _)
prioritize_all(d, ids, default_target_age) ==
    IF ids = <<>> THEN [ok |-> TRUE, db |-> d, val |-> TRUE]
    ELSE prioritize_all_after(prioritize(d, Head(ids), default_target_age),
                              Tail(ids), default_target_age)

prioritize_all_after(r, ids, default_target_age) ==
    IF ~r.ok THEN r ELSE prioritize_all(r.db, ids, default_target_age)

\* The ids enqueue_batch takes from one side of a batch: every addition,
\* and the removals that have no deactivation status.
enqueue_ids(log, change) ==
    IF change = NoChange THEN {}
    ELSE {change.addition_ids[i] : i \in DOMAIN change.addition_ids}
             \cup {id \in {change.removal_ids[i] : i \in DOMAIN change.removal_ids} :
                      status(log, id) = None}

\* Session::enqueue_batch
enqueue_batch(d, log, batch) ==
    prioritize_all(d, sorted(enqueue_ids(log, batch.follower_change)
                                 \cup enqueue_ids(log, batch.followed_change)),
                   DefaultTargetAge)

\* for id in ids { finish(id, default_target_age)? }
RECURSIVE finish_all(_, _, _, _)
RECURSIVE finish_all_after(_, _, _, _)
finish_all(d, ids, default_target_age, t) ==
    IF ids = <<>> THEN [ok |-> TRUE, db |-> d, val |-> TRUE]
    ELSE finish_all_after(finish(d, Head(ids), default_target_age, t),
                          Tail(ids), default_target_age, t)

finish_all_after(r, ids, default_target_age, t) ==
    IF ~r.ok THEN r ELSE finish_all(r.db, ids, default_target_age, t)

\* for id in deactivations.keys() { delete(id)? }
RECURSIVE delete_all(_, _)
delete_all(d, ids) ==
    IF ids = <<>> THEN d ELSE delete_all(delete(d, Head(ids)).db, Tail(ids))

\* run_batch once the lookup has come back: finished holds what the loop of
\* finish left, gone the status code of every id that is gone.
run_batch_recorded(finished, log, gone) ==
    IF ~finished.ok THEN [ok |-> FALSE, db |-> finished.db, log |-> log]
    ELSE [ok |-> TRUE, db |-> delete_all(finished.db, sorted(DOMAIN gone)),
          log |-> IF DOMAIN gone = {} THEN log ELSE add_all(log, gone)]

\* Downloader::run_batch up to its await: get_next.
RunBatchLease(count) ==
    /\ download.pc = "idle"
    /\ \E r \in {get_next(db, count, MIN_AGE_S, MIN_RUNNING_S, now)} :
          /\ db' = r.db
          /\ ret' = [op |-> "get_next", count |-> count, min_age |-> MIN_AGE_S,
                     min_running |-> MIN_RUNNING_S, ok |-> r.ok, val |-> r.val]
          /\ download' = IF r.ok THEN [pc |-> "fetching", ids |-> r.val, count |-> count]
                         ELSE DownloadIdle
    /\ UNCHANGED <<now, hist, codec, fold, storeVars, deactivations, loops, trackedVars>>

\* What lookup_users_json_or_status can give for the ids: an error of the
\* client (the rate limit or another), or for every id a profile, a value
\* that is no profile, or the status code of an account that is gone.
LookupErrors == {"RateLimit", "Other"}
Profile == 0
Malformed == 1
Lookups(ids) ==
    {[error |-> e, results |-> <<>>] : e \in LookupErrors}
        \cup {[error |-> "none", results |-> r] :
                 r \in [ids -> {Profile, Malformed} \cup GoneStatuses]}

\* The loop over the results, in the order of the ids: the ids of the
\* profiles and the statuses of the ids that are gone, up to the first value
\* that is no profile, whose error it returns.
collect(results) ==
    LET bad == {id \in DOMAIN results : results[id] = Malformed}
        read == {id \in DOMAIN results : \A b \in bad : id < b}
    IN [error |-> IF bad = {} THEN "none" ELSE "InvalidProfileJson",
        ids |-> {id \in read : results[id] = Profile},
        gone |-> [id \in {i \in read : results[i] \in GoneStatuses} |-> results[id]]]

\* run_batch that finishes the ids of the profiles it has read before it
\* returns the error of a value that is no profile.
run_batch_finishing_read(d, log, c, t) ==
    IF c.error # "none"
    THEN [ok |-> FALSE, error |-> c.error,
          db |-> finish_all(d, sorted(c.ids), DefaultTargetAge, t).db, log |-> log]
    ELSE [ok |-> TRUE, error |-> "none", db |-> d, log |-> log]

\* run_batch once the loop over the results is over, c being what it gave:
\* the error of the loop, or the loops of finish and of delete and the log.
run_batch_collected(d, log, c, t) ==
    IF c.error # "none"
    THEN [ok |-> FALSE, error |-> c.error, db |-> d, log |-> log]
    ELSE [ok |-> run_batch_recorded(finish_all(d, sorted(c.ids), DefaultTargetAge, t),
                                    log, c.gone).ok,
          error |-> "none",
          db |-> run_batch_recorded(finish_all(d, sorted(c.ids), DefaultTargetAge, t),
                                    log, c.gone).db,
          log |-> run_batch_recorded(finish_all(d, sorted(c.ids), DefaultTargetAge, t),
                                     log, c.gone).log]

\* Downloader::run_batch from its await on: the `?` on the lookup, then the
\* loop over the results and what follows it.
run_batch_after(d, log, lookup, t) ==
    IF lookup.error # "none"
    THEN [ok |-> FALSE, error |-> lookup.error, db |-> d, log |-> log]
    ELSE run_batch_collected(d, log, collect(lookup.results), t)

\* The lookup fails, or a profile is malformed: run_batch returns the error.
RunBatchFail(lookup) ==
    /\ download.pc = "fetching"
    /\ lookup.error # "none" \/ collect(lookup.results).error # "none"
    /\ \E r \in {run_batch_after(db, deactivations, lookup, now)} :
          /\ db' = r.db
          /\ deactivations' = r.log
          /\ ret' = [op |-> "run_batch", ok |-> r.ok, error |-> r.error,
                     gone |-> {}, count |-> download.count, ids |-> download.ids]
    /\ download' = DownloadIdle
    /\ UNCHANGED <<now, hist, codec, fold, storeVars, loops, trackedVars>>

\* The lookup comes back with a profile or a status for every id: finish
\* for the profiles, delete for the ids that are gone, then the log.
RunBatchDone(gone) ==
    /\ download.pc = "fetching"
    /\ DOMAIN gone \subseteq {download.ids[i] : i \in DOMAIN download.ids}
    /\ \E r \in {run_batch_recorded(
                     finish_all(db, sorted({download.ids[i] : i \in DOMAIN download.ids}
                                               \ DOMAIN gone),
                                DefaultTargetAge, now),
                     deactivations, gone)} :
          /\ db' = r.db
          /\ deactivations' = r.log
          /\ ret' = [op |-> "run_batch", ok |-> r.ok,
                     error |-> IF r.ok THEN "none" ELSE "ProfileAgeDb",
                     gone |-> DOMAIN gone, count |-> download.count,
                     ids |-> download.ids]
    /\ download' = DownloadIdle
    /\ UNCHANGED <<now, hist, codec, fold, storeVars, loops, trackedVars>>

\* The batches a scrape gives enqueue_batch: a change of followers.
EnqueueBatches ==
    {Batch(trunc_subsecs(FirstTick), FoldUser, Change(sorted(a), sorted(r)), Change(<<>>, <<>>)) :
        a \in SUBSET Ids, r \in SUBSET Ids}

\* Session::scrape after update_and_write: enqueue_batch.
EnqueueBatch(batch) ==
    /\ \E r \in {enqueue_batch(db, deactivations, batch)} :
          /\ db' = r.db
          /\ ret' = [op |-> "enqueue_batch", ok |-> r.ok]
    /\ UNCHANGED <<now, hist, codec, fold, storeVars, sessionVars>>

DownloadInit == AgeOpen /\ codec = CodecIdle /\ fold = FoldIdle /\ StoreOpen /\ SessionOpen

DownloadNext ==
    \/ Tick
    \/ \E c \in Counts : RunBatchLease(c)
    \/ \E l \in Lookups({download.ids[i] : i \in DOMAIN download.ids}) : RunBatchFail(l)
    \/ \E ids \in SUBSET Ids : \E gone \in [ids -> GoneStatuses] : RunBatchDone(gone)
    \/ \E b \in EnqueueBatches : EnqueueBatch(b)

\* The Downloader alone on a database of two ids, each inserted urgent or
\* with a last observation and a target age: nothing but run_batch touches
\* the age database.
RetryLasts == {None, 0, FirstTick}
RetryTargetAges == {1, 3}
RetryDbs ==
    {insert(insert(EmptyDb, 1, l1, a1).db, 2, l2, a2).db :
        l1 \in RetryLasts, l2 \in RetryLasts, a1 \in RetryTargetAges, a2 \in RetryTargetAges}

RetryInit ==
    /\ now = FirstTick
    /\ db \in RetryDbs
    /\ ret = [op |-> "open"]
    /\ hist = [i \in Ids |-> NoHist]
    /\ codec = CodecIdle /\ fold = FoldIdle /\ StoreOpen /\ SessionOpen

RetryNext ==
    \/ Tick
    \/ \E c \in Counts : RunBatchLease(c)
    \/ \E l \in Lookups({download.ids[i] : i \in DOMAIN download.ids}) : RunBatchFail(l)
    \/ \E ids \in SUBSET Ids : \E gone \in [ids -> GoneStatuses] : RunBatchDone(gone)

\* ========================================================== the Session
\* RATE_LIMIT_WINDOW_S, RATE_LIMIT_WINDOW_BATCH_SIZE and
\* RUN_DURATION_BUFFER_S of session.rs (24 min, 75 000 and 20 min), scaled.
RATE_LIMIT_WINDOW_S == 1
RATE_LIMIT_WINDOW_BATCH_SIZE == 1
RUN_DURATION_BUFFER_S == 0

estimate_run_duration(count) ==
    ((count \div RATE_LIMIT_WINDOW_BATCH_SIZE) + 1) * RATE_LIMIT_WINDOW_S
        + RUN_DURATION_BUFFER_S

\* default_target_age: MIN_TARGET_AGE_H and MAX_TARGET_AGE_D are both a
\* day, whatever the count of followers; scaled to the clock.
default_target_age(followers_count) == 2

\* Duration::max_value(): more than the time since MIN_UTC.
Duration_max_value == 1000000

\* The ids a scrape can observe: the Downloader finishes their profiles.
ScrapedIds == UNION ScrapedFollowers \cup UNION ScrapedFollowing

\* The last second of the clock of the Session.
SessionMaxSec == 3

\* The accounts the TrackedUserDb can hold.
TrackedIds == {FoldUser, FoldUser + 1}

\* The databases Session::open can find: both accounts tracked, the first
\* blocking the user of the client, the second protected or not.
TrackedDbs ==
    {[id \in TrackedIds |->
         [target_age |-> None,
          followers_count |-> id - FoldUser,
          protected |-> id # FoldUser /\ p, blocks |-> id = FoldUser]] :
     p \in BOOLEAN}

\* check_block
check_block(user, token_type) == token_type = "User" /\ user.blocks

\* Store::user_updates: id, last_update and whether no lease is running.
user_updates(us, t) ==
    {[id |-> u, last_update |-> us[u].last_update,
      available |-> us[u].expiration = None
                        \/ ~(us[u].expiration > trunc_subsecs(t))] : u \in DOMAIN us}

\* The target age of a user of the store: its own, the default one for its
\* count of followers, the default one for 15 000 when it is not tracked.
target_age_of(tr, id) ==
    IF id \notin DOMAIN tr THEN default_target_age(15000)
    ELSE IF tr[id].target_age # None THEN tr[id].target_age
    ELSE default_target_age(tr[id].followers_count)

\* Candidates where a tracked user the store has no entry for comes after
\* every user of the store.
candidates_new_last(us, tr, log, fl, token_type, t) ==
    {[id |-> id, diff |-> 0 - Duration_max_value] : id \in DOMAIN tr \ DOMAIN us}
        \cup {[id |-> u.id,
               diff |-> (trunc_subsecs(t) - u.last_update)
                            - target_age_of(tr, u.id) * TicksPerSec] :
              u \in {v \in user_updates(us, t) :
                        /\ v.available
                        /\ status(log, v.id) = None
                        /\ ~(v.id \in DOMAIN tr
                               /\ (tr[v.id].protected \/ check_block(tr[v.id], token_type)))
                        /\ v.id \notin fl}}

\* The candidates of Session::run: every tracked user the store has no
\* entry for, and the users of the store that are available, not
\* deactivated, not protected, not blocking, and not in failed.
candidates(us, tr, log, fl, token_type, t) ==
    {[id |-> id, diff |-> Duration_max_value] : id \in DOMAIN tr \ DOMAIN us}
        \cup {[id |-> u.id,
               diff |-> (trunc_subsecs(t) - u.last_update)
                            - target_age_of(tr, u.id) * TicksPerSec] :
              u \in {v \in user_updates(us, t) :
                        /\ v.available
                        /\ status(log, v.id) = None
                        /\ ~(v.id \in DOMAIN tr
                               /\ (tr[v.id].protected \/ check_block(tr[v.id], token_type)))
                        /\ v.id \notin fl}}

\* Selection that takes the largest id of the candidates of the largest diff.
select_largest_id(cands) ==
    CHOOSE c \in cands :
        \A d \in cands : d.diff < c.diff \/ (d.diff = c.diff /\ d.id <= c.id)

\* max_by_key(|(id, _, diff)| (*diff, Reverse(*id))): the largest diff, and
\* of the candidates of that diff the one whose Reverse(id) is largest.
select(cands) ==
    CHOOSE c \in cands :
        \A d \in cands : d.diff < c.diff \/ (d.diff = c.diff /\ d.id >= c.id)

\* The count of followers scrape gives estimate_run_duration.
followers_count_of(tr, id) ==
    IF id \in DOMAIN tr THEN tr[id].followers_count ELSE 15000

\* check_unavailable_reason: its match on the error is commented out, it
\* returns Some(UnavailableStatus::Unknown) for every error.
FetchErrors == {"RateLimit", "Unauthorized"}
check_unavailable_reason(error) == "Unknown"

\* DeactivationLog::add: an entry for the id.
add(log, user_id, code) ==
    [id \in DOMAIN log \cup {user_id} |-> IF id = user_id THEN code ELSE log[id]]

\* TrackedUserDb::put_block and set_protected, on a user of the database.
put_block(tr, id) == IF id \in DOMAIN tr THEN [tr EXCEPT ![id].blocks = TRUE] ELSE tr
set_protected(tr, id) == IF id \in DOMAIN tr THEN [tr EXCEPT ![id].protected = TRUE] ELSE tr

\* The failure branch of scrape that leaves the lease where it is.
scrape_failed_keeping_lease(us, tr, log, fl, user_id, last_update, st) ==
    [users |-> us, tracked |-> tr, log |-> log, failed |-> fl \cup {user_id},
     released |-> FALSE, result |-> "Unavailable", status |-> st]

\* The failure branch of Session::scrape for the status st: the side
\* effect of the status, failed.insert, undo_check_out, Ok(Unavailable).
scrape_failed(us, tr, log, fl, user_id, last_update, st) ==
    [users |-> undo_check_out(us, user_id, last_update).users,
     tracked |-> IF st = "Block" THEN put_block(tr, user_id)
                 ELSE IF st = "Protected" THEN set_protected(tr, user_id)
                 ELSE tr,
     log |-> IF st = "Deactivated" THEN add(log, user_id, 50)
             ELSE IF st = "Suspended" THEN add(log, user_id, 63)
             ELSE log,
     failed |-> fl \cup {user_id},
     released |-> undo_check_out(us, user_id, last_update).val,
     result |-> "Unavailable", status |-> st]

\* The success branch of scrape calling enqueue_batch whatever update gave.
scrape_updated_enqueueing(u, d, log, batch) ==
    [result |-> IF u.error # "none" THEN "Err" ELSE "Scraped",
     error |-> u.error,
     users |-> u.users,
     written |-> IF u.error # "none" THEN <<>> ELSE write_batch(batch),
     db |-> enqueue_batch(d, log, batch).db]

\* The success branch of Session::scrape once update has run, u being what
\* it gave: write and flush, then enqueue_batch.
scrape_updated(u, d, log, batch) ==
    IF u.error # "none"
    THEN [result |-> "Err", error |-> u.error, users |-> u.users,
          written |-> <<>>, db |-> d]
    ELSE [result |-> IF enqueue_batch(d, log, batch).ok THEN "Scraped" ELSE "Err",
          error |-> IF enqueue_batch(d, log, batch).ok THEN "none" ELSE "ProfileAgeDb",
          users |-> u.users,
          written |-> write_batch(batch),
          db |-> enqueue_batch(d, log, batch).db]

\* Session::run up to the await of scrape: archive, and when it has nothing
\* to move, the selection of a candidate and its check_out.
SessionRun(w) ==
    /\ workers[w].pc = "idle"
    /\ \E a \in {archive(writer, current, past, now)},
          cands \in {candidates(users, tracked, deactivations, failed, w, now)} :
          IF a.error # "none" \/ a.val # None
          THEN /\ writer' = a.writer /\ current' = a.current /\ past' = a.past
               /\ ret' = [op |-> "run", loop |-> w,
                          result |-> IF a.error # "none" THEN "Err" ELSE "Archived",
                          error |-> a.error, id |-> None]
               /\ UNCHANGED <<users, workers>>
          ELSE IF cands = {}
          THEN /\ writer' = a.writer /\ current' = a.current /\ past' = a.past
               /\ ret' = [op |-> "run", loop |-> w, result |-> "None",
                          error |-> "none", id |-> None]
               /\ UNCHANGED <<users, workers>>
          ELSE \E r \in {check_out(users, select(cands).id,
                             estimate_run_duration(
                                 followers_count_of(tracked, select(cands).id)),
                             now)} :
                  /\ writer' = a.writer /\ current' = a.current /\ past' = a.past
                  /\ users' = r.users
                  /\ ret' = [op |-> "run", loop |-> w,
                             result |-> IF r.val = None THEN "None" ELSE "Selected",
                             error |-> "none", id |-> select(cands).id]
                  /\ workers' = IF r.val = None THEN workers
                                ELSE [workers EXCEPT ![w] =
                                         [pc |-> "scraping",
                                          user_id |-> select(cands).id,
                                          last_update |-> r.val,
                                          expiration |-> r.users[select(cands).id].expiration,
                                          batch |-> NoBatch]]
    /\ UNCHANGED <<now, db, hist, codec, fold, granted, sessionVars>>

\* scrape_follows came back with the ids: make_batch, update_and_write and
\* enqueue_batch, and run returns.
FetchOk(w, follower_ids, following_ids) ==
    /\ workers[w].pc = "scraping"
    /\ Written < MaxBatches
    /\ \E batch \in {make_batch(users, workers[w].user_id, follower_ids,
                                following_ids, now)} :
          \E r \in {scrape_updated(update(users, batch, workers[w].last_update),
                                   db, deactivations, batch)} :
             /\ users' = r.users
             /\ current' = IF r.written = <<>> THEN current
                           ELSE current \o writer \o r.written
             /\ writer' = IF r.written = <<>> THEN writer ELSE <<>>
             /\ db' = r.db
             /\ ret' = [op |-> "scrape", result |-> r.result,
                        error |-> r.error, id |-> workers[w].user_id,
                        batch |-> batch, fetch |-> "none", status |-> "none"]
    /\ workers' = [workers EXCEPT ![w] = Idle]
    /\ UNCHANGED <<now, hist, codec, fold, past, granted, sessionVars>>

\* A fetch of scrape_follows failed with error: check_unavailable_reason
\* and the failure branch of scrape, and run returns.
FetchErr(w, error) ==
    /\ workers[w].pc = "scraping"
    /\ \E r \in {scrape_failed(users, tracked, deactivations, failed,
                               workers[w].user_id, workers[w].last_update,
                               check_unavailable_reason(error))} :
          /\ users' = r.users
          /\ tracked' = r.tracked
          /\ deactivations' = r.log
          /\ failed' = r.failed
          /\ ret' = [op |-> "scrape", result |-> r.result,
                     error |-> "none", id |-> workers[w].user_id,
                     batch |-> NoBatch, fetch |-> error, status |-> r.status]
    /\ workers' = [workers EXCEPT ![w] = Idle]
    /\ UNCHANGED <<now, db, hist, codec, fold, writer, current, past, granted,
                   download, loops>>

\* Session::open on an empty store, with the tracked users and the
\* deactivation file it finds.
SessionInit ==
    /\ AgeOpen /\ codec = CodecIdle /\ fold = FoldIdle /\ StoreOpen
    /\ download = DownloadIdle
    /\ loops = [l \in RunLoops \cup DownloadLoops |-> Iterating]
    /\ failed = {}
    /\ tracked \in TrackedDbs
    /\ deactivations \in {NoDeactivations, [id \in {1} |-> 50]}

\* The clock of the Session moves on, by a second.
SessionTick ==
    /\ Secs(now) < SessionMaxSec
    /\ now' = now + TicksPerSec
    /\ UNCHANGED <<db, ret, hist, codec, fold, storeVars, sessionVars>>

\* The Downloader has the profile of an id of the age database: finish.
ProfileFinished(id) ==
    /\ id_key(id) \in DOMAIN db
    /\ Finish(id, DefaultTargetAge, FALSE, FALSE)

SessionNext ==
    \/ SessionTick
    \/ \E w \in Workers : SessionRun(w)
    \/ \E w \in Workers, f \in ScrapedFollowers, g \in ScrapedFollowing : FetchOk(w, f, g)
    \/ \E w \in Workers, e \in FetchErrors : FetchErr(w, e)
    \/ \E id \in ScrapedIds : ProfileFinished(id)

\* ======================================================= the loops of main
\* ERROR_WAIT_S and WAIT_BUFFER_S of hst-tw-follow.rs (10 min and 30 s),
\* scaled to the clock.
ERROR_WAIT_S == 2
WAIT_BUFFER_S == 1

\* What an iteration can fail with: an error of the store, the codec or the
\* client, or the rate limit of the client with the time of its reset.
LoopErrors ==
    {[kind |-> "Other", timestamp_s |-> 0]}
        \cup {[kind |-> "RateLimit", timestamp_s |-> ts] : ts \in 0..(MaxSec + 1)}

\* *timestamp_s as u64 - now_s + WAIT_BUFFER_S in u64: what the build can
\* make of it.  With the reset in the past the subtraction overflows: a
\* build that checks overflow panics, one that does not wraps around 2^64.
\* The value is high * 2^64 + low.
diff_s(timestamp_s, now_s) ==
    IF timestamp_s >= now_s
    THEN {[kind |-> "value", high |-> 0, low |-> timestamp_s - now_s + WAIT_BUFFER_S]}
    ELSE {[kind |-> "panic", high |-> 0, low |-> 0],
          IF timestamp_s + WAIT_BUFFER_S >= now_s
          THEN [kind |-> "value", high |-> 0, low |-> timestamp_s + WAIT_BUFFER_S - now_s]
          ELSE [kind |-> "value", high |-> 1, low |-> timestamp_s + WAIT_BUFFER_S - now_s]}

\* wait_for_window_follow and wait_for_window_downloader, then the sleep of
\* ERROR_WAIT_S when they return false: what the loop does after an Err,
\* d being what diff_s gave.
after_error(error, d, now_s) ==
    IF error.kind # "RateLimit"
    THEN [pc |-> "sleeping", high |-> 0, until |-> now_s + ERROR_WAIT_S]
    ELSE IF d.kind = "panic" THEN [pc |-> "panicked", high |-> 0, until |-> 0]
    ELSE IF d.high = 0 /\ d.low = 0 THEN Iterating
    ELSE [pc |-> "sleeping", high |-> d.high, until |-> now_s + d.low]

\* An iteration of run_loop or download_loop returns Ok: the next iteration
\* follows, after a sleep of ERROR_WAIT_S when a download_loop got nothing.
IterationOk(l, nothing) ==
    /\ loops[l].pc = "iterating"
    /\ nothing => l \in DownloadLoops
    /\ loops' = [loops EXCEPT ![l] =
                    IF nothing
                    THEN [pc |-> "sleeping", high |-> 0, until |-> Secs(now) + ERROR_WAIT_S]
                    ELSE Iterating]
    /\ ret' = [op |-> "iteration", loop |-> l, error |-> "none", nothing |-> nothing,
               timestamp_s |-> 0]
    /\ UNCHANGED <<now, db, hist, codec, fold, storeVars, deactivations, download, trackedVars>>

\* An iteration returns Err: the error is logged, and the loop sleeps.  A
\* panic unwinds main: every loop ends with it.
IterationErr(l, error) ==
    /\ loops[l].pc = "iterating"
    /\ \E d \in diff_s(error.timestamp_s, Secs(now)) :
          loops' = IF after_error(error, d, Secs(now)).pc = "panicked"
                   THEN [k \in DOMAIN loops |-> after_error(error, d, Secs(now))]
                   ELSE [loops EXCEPT ![l] = after_error(error, d, Secs(now))]
    /\ ret' = [op |-> "iteration", loop |-> l, error |-> error.kind, nothing |-> FALSE,
               timestamp_s |-> error.timestamp_s]
    /\ UNCHANGED <<now, db, hist, codec, fold, storeVars, deactivations, download, trackedVars>>

\* tokio::time::sleep is over.
WakeUp(l) ==
    /\ loops[l].pc = "sleeping"
    /\ loops[l].high = 0
    /\ Secs(now) >= loops[l].until
    /\ loops' = [loops EXCEPT ![l] = Iterating]
    /\ ret' = [op |-> "wake", loop |-> l]
    /\ UNCHANGED <<now, db, hist, codec, fold, storeVars, deactivations, download, trackedVars>>

LoopInit == AgeOpen /\ codec = CodecIdle /\ fold = FoldIdle /\ StoreOpen /\ SessionOpen

LoopNext ==
    \/ StoreTick
    \/ \E l \in RunLoops \cup DownloadLoops, nothing \in BOOLEAN : IterationOk(l, nothing)
    \/ \E l \in RunLoops \cup DownloadLoops, error \in LoopErrors : IterationErr(l, error)
    \/ \E l \in RunLoops \cup DownloadLoops : WakeUp(l)

ExpiryInit == AgeOpen /\ codec = CodecIdle /\ fold = FoldIdle /\ StoreOpen /\ SessionOpen

\* No update_and_write, no undo_check_out, no finish: a lease ends by
\* expiring.
ExpiryNext ==
    \/ Tick
    \/ \E w \in Workers, u \in StoreUsers, d \in RunDurations : CheckOut(w, u, d)
    \/ \E id \in Ids : Prioritize(id, DefaultTargetAge, TRUE, FALSE)
    \/ \E c \in Counts, a \in Durations, r \in Durations : GetNext(c, a, r, TRUE, FALSE)

vars == <<now, db, ret, hist, codec, fold, storeVars, sessionVars>>

\* The age database alone, with no history.
SpecAge == AgeInit /\ [][AgeNext(FALSE, FALSE)]_vars

\* The age database with the lease times recorded.
SpecLease == AgeInit /\ [][AgeNext(TRUE, FALSE)]_vars

\* The age database with the finish times recorded.
SpecFinish == AgeInit /\ [][AgeNext(FALSE, TRUE)]_vars

\* A batch written by write_batches and read back by a FollowReader.
SpecCodec == CodecInit /\ [][CodecNext]_vars

\* A batch, made by make_batch or given, applied to a State by update.
SpecFold == FoldInit /\ [][FoldNext]_vars

\* The age database with a record that does not decode, and operations
\* given what they cannot encode.
SpecTx == TxInit /\ [][TxNext]_vars

\* A FollowReader on damaged bytes.
SpecDecode == DecodeInit /\ [][DecodeNext]_vars

\* The Store under the two Session loops.
SpecStore == StoreInit /\ [][StoreNext]_vars

\* The Store and the age database with holders of leases that never
\* complete and never release them.
SpecExpiry == ExpiryInit /\ [][ExpiryNext]_vars

\* The two Session loops on one Session: run, and the fetch of scrape.
SpecSession == SessionInit /\ [][SessionNext]_vars

\* The four loops of main, each iteration ending in Ok or in an Err.
SpecLoop == LoopInit /\ [][LoopNext]_vars

\* The Downloader and the enqueue_batch of the Session loops on one AgeStore.
SpecDownload == DownloadInit /\ [][DownloadNext]_vars

\* The Session with loops that go on.  Weak fairness of the clock, and of
\* the two steps of a loop, which is read off the state: run_loop calls run
\* again whenever it has returned, so a loop is not idle for ever without a
\* run of its own being the last operation; and the fetch a scrape awaits
\* comes back, so a loop does not stay in a scrape that can go on.
LoopRuns(w) ==
    []<>(workers[w].pc # "idle" \/ (ret.op = "run" /\ ret.loop = w))

FetchReturns(w) ==
    []<>(workers[w].pc # "scraping" \/ Written >= MaxBatches)

SpecSessionFair ==
    /\ SessionInit /\ [][SessionNext]_vars
    /\ WF_vars(SessionTick)
    /\ \A w \in Workers : LoopRuns(w)
    /\ \A w \in Workers : FetchReturns(w)

\* The Downloader with no other user of the age database.
SpecRetry == RetryInit /\ [][RetryNext]_vars

\* ===================================================== the age database
AgeKeys(d) == {k \in DOMAIN d : k[1] = AGE_TAG}

AgeKeysOf(d, id) == {k \in AgeKeys(d) : k[3] = id}

Tracked(d, id) == id_key(id) \in DOMAIN d

\* A step of get_next (every other step either moves the clock or names
\* another operation in ret).
IsGetNext == now' = now /\ ret'.op = "get_next" /\ ret'.ok

Returned(r) == {r.val[i] : i \in 1..Len(r.val)}

\* C3: every tracked id has exactly one priority record and one by-id
\* record, the next_due of the priority key is the next_due of the by-id
\* value, and an id with no by-id record has no priority record.
TwoRecordInvariant ==
    \A id \in Ids :
        IF Tracked(db, id)
        THEN /\ Cardinality(AgeKeysOf(db, id)) = 1
             /\ \A k \in AgeKeysOf(db, id) :
                    parse_age_key(k).next = parse_id_value(db[id_key(id)]).next
        ELSE AgeKeysOf(db, id) = {}

\* C3 witness: after a finish that replaced an entry, one id is scheduled
\* and another is urgent.
TwoRecordWitness ==
    /\ ret.op = "finish" /\ ret.val = TRUE
    /\ \E a \in Ids, b \in Ids :
          /\ Tracked(db, a) /\ parse_id_value(db[id_key(a)]).next # None
          /\ Tracked(db, b) /\ parse_id_value(db[id_key(b)]).next = None

\* The order the claim gives: urgent entries first, then ascending
\* next_due, then ascending id.
Before(a, b) ==
    LET pa == parse_age_key(a)
        pb == parse_age_key(b)
    IN \/ pa.next = None /\ pb.next # None
       \/ pa.next # None /\ pb.next # None /\ pa.next < pb.next
       \/ pa.next = pb.next /\ pa.id < pb.id

\* The entry was neither observed less than min_age ago nor lease-started
\* less than min_running ago, read from the stored words.
Due(d, k, min_age, min_running, t) ==
    LET last_s == d[k][1]
        started_s == IF Len(d[k]) = 2 THEN d[k][2] ELSE 0
    IN /\ last_s = 0 \/ t - last_s * TicksPerSec >= min_age * TicksPerSec
       /\ started_s = 0 \/ t - started_s * TicksPerSec >= min_running * TicksPerSec

Min(a, b) == IF a < b THEN a ELSE b

\* C10: get_next returns the first `count` due entries in priority order
\* and marks exactly those as lease-started at now; get_next(1, 0, 0) never
\* returns a scheduled entry while a never-observed urgent one exists.
GetNextContract ==
    [][IsGetNext =>
        LET r == ret'
            due == {k \in AgeKeys(db) : Due(db, k, r.min_age, r.min_running, now)}
            taken == {k \in AgeKeys(db) : k[3] \in Returned(r)}
        IN /\ Len(r.val) = Min(r.count, Cardinality(due))
           /\ taken \subseteq due
           /\ Cardinality(taken) = Len(r.val)
           /\ \A i \in 1..Len(r.val), j \in 1..Len(r.val) :
                 i < j => \E a \in taken, b \in taken :
                             a[3] = r.val[i] /\ b[3] = r.val[j] /\ Before(a, b)
           /\ \A a \in taken, b \in due \ taken : Before(a, b)
           /\ DOMAIN db' = DOMAIN db
           /\ \A k \in DOMAIN db :
                 db'[k] = IF k \in taken THEN <<db[k][1], Secs(now)>> ELSE db[k]
           /\ (r.count = 1 /\ r.min_age = 0 /\ r.min_running = 0
               /\ \E a \in AgeKeys(db) : a[2] = 0 /\ db[a][1] = 0)
              => \A k \in taken : k[2] = 0
      ]_vars

\* C10 witness: get_next(1, 0, 0) has returned a never-observed id while
\* another, observed id is scheduled later than now.
GetNextWitness ==
    /\ ret.op = "get_next" /\ ret.count = 1
    /\ ret.min_age = 0 /\ ret.min_running = 0
    /\ Len(ret.val) = 1
    /\ \E a \in AgeKeys(db), b \in AgeKeys(db) :
          /\ a[3] = ret.val[1] /\ a[2] = 0 /\ db[a][1] = 0
          /\ b[3] # a[3] /\ b[2] * TicksPerSec > now /\ db[b][1] # 0

\* C2: a get_next with min_running > 0 returns no id that another get_next
\* leased less than min_running ago, unless a finish came in between.
LeaseExclusive ==
    [][(IsGetNext /\ ret'.min_running > 0) =>
        \A id \in Returned(ret') :
            \/ hist[id].leased = None
            \/ now - hist[id].leased >= ret'.min_running * TicksPerSec
      ]_vars

\* C5 as stated: after finish(id) at time T no get_next returns id before
\* T + min_age, unless a prioritize on id came in between.
FinishMonotone ==
    [][IsGetNext =>
        \A id \in Returned(ret') :
            \/ hist[id].finished = None
            \/ now >= hist[id].finished + ret'.min_age * TicksPerSec
      ]_vars

\* C5 amended: after finish(id) at time T no get_next returns id before
\* the whole second of T plus min_age, unless a prioritize or an insert on
\* id came in between.
FinishMonotoneSeconds ==
    [][IsGetNext =>
        \A id \in Returned(ret') :
            \/ hist[id].finished = None
            \/ hist[id].inserted
            \/ now >= Secs(hist[id].finished) * TicksPerSec
                        + ret'.min_age * TicksPerSec
      ]_vars

\* C5 witness: a get_next with min_age > 0 has returned an id that was
\* finished, and neither prioritized nor inserted since.
FinishMonotoneWitness ==
    /\ ret.op = "get_next" /\ ret.min_age > 0
    /\ \E id \in Returned(ret) :
          hist[id].finished # None /\ ~hist[id].inserted

\* ------------------------------------------------------------------- C4
BothNone == codec.batch.follower_change = NoChange /\ codec.batch.followed_change = NoChange

ReadBack == codec.pc = "done" /\ codec.out = <<codec.batch>>

\* C4 as stated: every batch with strictly increasing lists, each side None
\* or Some, both sides None included, is read back as exactly one batch
\* equal to the one written.
CodecRoundTrip == codec.pc \in {"done", "failed"} => ReadBack

\* C4, amended: every batch with strictly increasing lists and at least one
\* side Some is read back as exactly one batch equal to the one written,
\* with None and Some of two empty lists kept apart.
CodecRoundTripObserved ==
    (codec.pc \in {"done", "failed"} /\ ~BothNone) => ReadBack

\* A batch with one side Some of two empty lists and the other side None
\* has been read back.
CodecRoundTripWitness ==
    /\ ReadBack
    /\ codec.batch.follower_change = Change(<<>>, <<>>)
    /\ codec.batch.followed_change = NoChange

\* ------------------------------------------------------------------- C8
Range(seq) == {seq[i] : i \in DOMAIN seq}

\* The set a side holds before update: empty for a user not seen yet.
FollowersBefore ==
    IF FoldUser \in DOMAIN fold.before THEN fold.before[FoldUser].followers ELSE {}

FollowingBefore ==
    IF FoldUser \in DOMAIN fold.before THEN fold.before[FoldUser].following ELSE {}

\* (S \cup additions) \ removals, and S for a side that was not observed.
Folded(S, change) ==
    IF change = NoChange THEN S
    ELSE (S \cup Range(change.addition_ids)) \ Range(change.removal_ids)

\* C8: a batch that update applies without error replaces the set S of each
\* observed side by (S \cup additions) \ removals, leaves the set of a side
\* whose change is None as it was, and sets last_update to the timestamp of
\* the batch.
BatchFold ==
    (fold.pc = "updated" /\ fold.error = "none") =>
        /\ fold.users[FoldUser].followers =
               Folded(FollowersBefore, fold.batch.follower_change)
        /\ fold.users[FoldUser].following =
               Folded(FollowingBefore, fold.batch.followed_change)
        /\ fold.users[FoldUser].last_update = fold.batch.timestamp

\* The worked example: followers {1, 2, 3} of user 7, then additions [4] and
\* removals [2] with the following side not observed, give {1, 3, 4}.
BatchFoldWitness ==
    /\ fold.pc = "updated" /\ fold.error = "none"
    /\ FoldUser \in DOMAIN fold.before
    /\ fold.before[FoldUser].followers = {1, 2, 3}
    /\ fold.batch.follower_change = Change(<<4>>, <<2>>)
    /\ fold.batch.followed_change = NoChange
    /\ fold.users[FoldUser].followers = {1, 3, 4}

\* ------------------------------------------------------------------- C9
\* make_batch has made the batch of fold from the ids observed.
MadeFromObserved == fold.observed /\ fold.pc \in {"made", "updated"}

Increasing(change) ==
    /\ is_increasing(change.addition_ids)
    /\ is_increasing(change.removal_ids)
    /\ Range(change.addition_ids) \cap Range(change.removal_ids) = {}

\* C9: the batch make_batch(user, F, G) makes has, on each side, the
\* additions F \ S and the removals S \ F for the set S the State holds (all
\* of F for an unseen user), each list strictly increasing and the two
\* disjoint; an update_and_write of it that succeeds, with no write in
\* between, leaves the sets F and G; and against a State that holds F and G
\* the batch has no additions and no removals.
MakeBatchInverse ==
    /\ MadeFromObserved =>
          /\ fold.batch.follower_change # NoChange
          /\ fold.batch.followed_change # NoChange
          /\ Range(fold.batch.follower_change.addition_ids)
                 = fold.follower_ids \ FollowersBefore
          /\ Range(fold.batch.follower_change.removal_ids)
                 = FollowersBefore \ fold.follower_ids
          /\ Range(fold.batch.followed_change.addition_ids)
                 = fold.following_ids \ FollowingBefore
          /\ Range(fold.batch.followed_change.removal_ids)
                 = FollowingBefore \ fold.following_ids
          /\ Increasing(fold.batch.follower_change)
          /\ Increasing(fold.batch.followed_change)
    /\ (MadeFromObserved /\ fold.pc = "updated" /\ fold.error = "none") =>
          /\ fold.users[FoldUser].followers = fold.follower_ids
          /\ fold.users[FoldUser].following = fold.following_ids
    /\ (MadeFromObserved /\ FoldUser \in DOMAIN fold.before
            /\ fold.before[FoldUser].followers = fold.follower_ids
            /\ fold.before[FoldUser].following = fold.following_ids) =>
          /\ fold.batch.follower_change = Change(<<>>, <<>>)
          /\ fold.batch.followed_change = Change(<<>>, <<>>)

\* update_and_write has applied the batch made for user 7 holding the
\* followers {1, 2, 3} when {1, 3, 4} were observed.
MakeBatchInverseWitness ==
    /\ MadeFromObserved /\ fold.pc = "updated" /\ fold.error = "none"
    /\ FoldUser \in DOMAIN fold.before
    /\ fold.before[FoldUser].followers = {1, 2, 3}
    /\ fold.follower_ids = {1, 3, 4}
    /\ fold.batch.follower_change = Change(<<4>>, <<2>>)
    /\ fold.users[FoldUser].followers = {1, 3, 4}
    /\ fold.written # <<>>

\* ------------------------------------------------------------------- C1
\* The step is a check_out on user_id.
IsCheckOut(user_id) ==
    now' = now /\ ret'.op = "check_out" /\ ret'.user_id = user_id

\* C1: while a lease that check_out granted on a user is unexpired and no
\* update_and_write and no undo_check_out has released it, every check_out
\* on that user returns None.
CheckOutExclusive ==
    [][\A u \in StoreUsers :
          (IsCheckOut(u) /\ granted[u] # None /\ now < granted[u])
              => ret'.val = None]_vars

\* A check_out has returned None while the other loop holds the lease.
CheckOutExclusiveWitness ==
    /\ ret.op = "check_out" /\ ret.val = None
    /\ granted[ret.user_id] # None /\ now < granted[ret.user_id]
    /\ \E w \in Workers :
          workers[w].pc = "scraping" /\ workers[w].user_id = ret.user_id

\* ------------------------------------------------------------------- C6
\* The bytes of the current file, those its writer holds back included.
CurrentBytes == current \o writer

\* C6: after an archive(), with no write since and on the same UTC date,
\* another archive() returns None, changes no past file and no record of
\* the current file, and does not fail with PastFileCollision.
ArchiveTwice ==
    (ret.op = "archive" /\ ret.date = date_naive(now)) =>
        \A r \in {archive(writer, current, past, now)} :
            /\ r.error = "none" /\ r.val = None
            /\ r.past = past
            /\ r.current \o r.writer = CurrentBytes

\* ------------------------------------------------------------------ C11
\* update_and_write has run: update was given an expected last_update.
WithExpected == fold.pc = "updated" /\ fold.last_update # None

\* C11: update_and_write fails with StaleBatch whenever the last_update of
\* the user differs from the expected one, and a call that fails with
\* StaleBatch leaves every user as it was, creates no user entry and
\* appends nothing to the current file.
CompareAndSwap ==
    /\ (WithExpected /\ FoldUser \in DOMAIN fold.before
            /\ fold.before[FoldUser].last_update # fold.last_update)
          => fold.error = "StaleBatch"
    /\ (WithExpected /\ fold.error = "StaleBatch")
          => fold.users = fold.before /\ fold.written = <<>>

\* ------------------------------------------------------------------ C12
\* No two batches of bs are of the same user with the later one's timestamp
\* not greater than the earlier one's.
IncreasingPerUser(bs) ==
    \A i \in DOMAIN bs, j \in DOMAIN bs :
        (i < j /\ bs[i].user_id = bs[j].user_id) => bs[i].timestamp < bs[j].timestamp

\* C12: the batches persisted for a user, those of the archives and then
\* those of the current file in the order they were written, have strictly
\* increasing timestamps; no two of them have the same timestamp.
TimestampsIncrease ==
    IncreasingPerUser(past_batches(past).batches
                          \o read_batches(current \o writer).batches)

\* ------------------------------------------------------------------ C13
\* The ids a change adds although the set S holds them, and the ids it
\* removes although neither S nor its additions hold them.
DupIds(S, change) ==
    IF change = NoChange THEN {} ELSE Range(change.addition_ids) \cap S

MissIds(S, change) ==
    IF change = NoChange THEN {}
    ELSE Range(change.removal_ids) \ (S \cup Range(change.addition_ids))

Dups(batch, F, G) == DupIds(F, batch.follower_change) \cup DupIds(G, batch.followed_change)

Misses(batch, F, G) == MissIds(F, batch.follower_change) \cup MissIds(G, batch.followed_change)

\* The result r of applying batch to the sets F and G names what is wrong
\* with the batch: DuplicateId or MissingId, the user of the batch and an
\* offending id; it is Ok when nothing is wrong.
NamesOffence(r, batch, F, G) ==
    /\ (Dups(batch, F, G) \cup Misses(batch, F, G) = {}) <=> r.error = "none"
    /\ (Dups(batch, F, G) # {} /\ Misses(batch, F, G) = {}) => r.error = "DuplicateId"
    /\ (Misses(batch, F, G) # {} /\ Dups(batch, F, G) = {}) => r.error = "MissingId"
    /\ r.error = "DuplicateId" =>
          r.target_id = batch.user_id /\ r.source_id \in Dups(batch, F, G)
    /\ r.error = "MissingId" =>
          r.target_id = batch.user_id /\ r.source_id \in Misses(batch, F, G)

\* The order Store::open replays the batches of fold in.
Replayed == IF fold.archived THEN fold.batches ELSE sort_batches(fold.batches)

\* The followers the first batch of a replay leaves.
AfterFirst == Folded({}, Replayed[1].follower_change)

FirstOffends == Dups(Replayed[1], {}, {}) \cup Misses(Replayed[1], {}, {}) # {}

\* C13: a batch applied by update_and_write or by the replay of open that
\* adds an id its set holds fails with DuplicateId, one that removes an id
\* its set does not hold fails with MissingId, the error naming the user of
\* the batch and the offending id, and nothing is written; open fails at the
\* first such batch of the replay and returns no store.
OffenceReported ==
    /\ (fold.pc = "updated" /\ fold.error # "StaleBatch") =>
          /\ NamesOffence(fold, fold.batch, FollowersBefore, FollowingBefore)
          /\ fold.error # "none" => fold.written = <<>>
    /\ fold.pc \in {"opened", "failed"} =>
          /\ IF FirstOffends
             THEN NamesOffence(fold, Replayed[1], {}, {})
             ELSE NamesOffence(fold, Replayed[2], AfterFirst, {})
          /\ fold.pc = "failed" <=> fold.error # "none"
          /\ fold.pc = "failed" => fold.users = NoUsers
          /\ fold.pc = "opened" =>
                fold.users[FoldUser].followers
                    = Folded(AfterFirst, Replayed[2].follower_change)

\* open has failed with MissingId at its second batch, read from the current
\* file, after a first batch from a past file that added the other id.
OffenceReportedWitness ==
    /\ fold.pc = "failed" /\ fold.archived
    /\ fold.error = "MissingId" /\ fold.target_id = FoldUser /\ fold.source_id = 2
    /\ fold.batches[1].follower_change = Change(<<1>>, <<>>)
    /\ fold.batches[2].follower_change = Change(<<>>, <<2>>)

\* ------------------------------------------------------------------ C14
\* The step is an insert that committed.
IsInsert == now' = now /\ ret'.op = "insert" /\ ret'.ok

\* last_observed + target_age in whole seconds; None for no last_observed.
NextDue(last, target_age) ==
    IF last = None THEN None ELSE trunc_subsecs(last) + target_age * TicksPerSec

\* The two records of id in d say next_due and target_age, and id has no
\* other priority record.
Scheduled(d, id, next_due, target_age) ==
    /\ Tracked(d, id)
    /\ parse_id_value(d[id_key(id)]) = [next |-> next_due, target_age |-> target_age]
    /\ AgeKeysOf(d, id) = {age_key(next_due, id)}

\* C14: insert on an unknown id creates both records with next_due = None,
\* whatever last_observed is; on a known id it deletes the old priority
\* record and writes a new one with next_due = last_observed + target_age,
\* the by-id record saying the same next_due and target_age.
InsertOrUpdate ==
    [][IsInsert =>
        IF Tracked(db, ret'.id)
        THEN /\ ret'.val = TRUE
             /\ Scheduled(db', ret'.id, NextDue(ret'.last, ret'.target_age),
                          ret'.target_age)
        ELSE /\ ret'.val = FALSE
             /\ Scheduled(db', ret'.id, None, ret'.target_age)
      ]_vars

\* ------------------------------------------------------------------ C15
\* The step is a prioritize that committed.
IsPrioritize == now' = now /\ ret'.op = "prioritize" /\ ret'.ok

\* Every priority record of id in d says last_observed = last.
LastObserved(d, id, last) ==
    \A k \in AgeKeysOf(d, id) : parse_age_value(d[k]).last = last

\* C15: after prioritize(id, fallback_target_age) commits, the entry of id
\* has next_due = None and sorts before every scheduled entry, whatever its
\* schedule was; a known id keeps its target_age and its last_observed, an
\* unknown id has target_age = fallback_target_age and no last_observed.
PrioritizeUrgent ==
    [][IsPrioritize =>
        /\ ret'.val = Tracked(db, ret'.id)
        /\ \A k \in AgeKeys(db') :
              parse_age_key(k).next # None => KeyLess(age_key(None, ret'.id), k)
        /\ IF Tracked(db, ret'.id)
           THEN /\ Scheduled(db', ret'.id, None,
                             parse_id_value(db[id_key(ret'.id)]).target_age)
                /\ \A k \in AgeKeysOf(db, ret'.id) :
                      LastObserved(db', ret'.id, parse_age_value(db[k]).last)
           ELSE /\ Scheduled(db', ret'.id, None, ret'.default_target_age)
                /\ LastObserved(db', ret'.id, None)
      ]_vars

\* prioritize has made urgent an id that was observed and scheduled, with a
\* target age that is not the fallback, while another id is scheduled.
PrioritizeUrgentWitness ==
    /\ ret.op = "prioritize" /\ ret.val = TRUE
    /\ Scheduled(db, ret.id, None, 1) /\ ret.default_target_age # 1
    /\ ~LastObserved(db, ret.id, None)
    /\ \E k \in AgeKeys(db) : k[3] # ret.id /\ parse_age_key(k).next # None

\* ------------------------------------------------------------------ C16
\* The step is a finish that committed.
IsFinish == now' = now /\ ret'.op = "finish" /\ ret'.ok

\* The target age finish uses for id: the stored one, or the fallback.
FinishAge(d, id, fallback_target_age) ==
    IF Tracked(d, id) THEN parse_id_value(d[id_key(id)]).target_age
    ELSE fallback_target_age

\* C16: finish(id, fallback_target_age) at time now leaves id with one
\* priority record and a by-id record that say next_due = now + target_age
\* (in the whole seconds they are stored in), target_age being the stored
\* one or, for an unknown id, the fallback; the priority record says
\* last_observed = now and has no lease-started marker.
FinishSchedules ==
    [][IsFinish =>
        /\ ret'.val = Tracked(db, ret'.id)
        /\ Scheduled(db', ret'.id,
                     NextDue(now, FinishAge(db, ret'.id, ret'.default_target_age)),
                     FinishAge(db, ret'.id, ret'.default_target_age))
        /\ \A k \in AgeKeysOf(db', ret'.id) :
              parse_age_value(db'[k]) = [last |-> trunc_subsecs(now), started |-> None]
      ]_vars

\* finish has rescheduled a known id with a stored target age that is not
\* the fallback, at a time that is not a whole second.
FinishSchedulesWitness ==
    /\ ret.op = "finish" /\ ret.val = TRUE /\ ret.default_target_age # 1
    /\ now # trunc_subsecs(now)
    /\ Scheduled(db, ret.id, NextDue(now, 1), 1)
    /\ \A k \in AgeKeysOf(db, ret.id) :
          parse_age_value(db[k]) = [last |-> trunc_subsecs(now), started |-> None]

\* ------------------------------------------------------------------ C17
\* The step is a run_batch that came back with the statuses of its ids.
IsRunBatch == now' = now /\ ret'.op = "run_batch" /\ ret'.ok

\* C17: an id for which run_batch received a gone status is recorded in the
\* deactivation log and has no record left in the age database, and no
\* get_next returns an id of the deactivation log: no enqueue_batch and no
\* run_batch enrols it again.
GoneForGood ==
    [][/\ IsRunBatch =>
            \A id \in ret'.gone :
                /\ status(deactivations', id) # None
                /\ ~Tracked(db', id)
                /\ AgeKeysOf(db', id) = {}
       /\ IsGetNext =>
            \A id \in Returned(ret') : status(deactivations, id) = None
      ]_vars

\* ------------------------------------------------------------------ C18
\* C18: undo_check_out(user_id, expected_last_update) on a user of the store
\* returns true and clears the lease, changing nothing else, when the
\* last_update of the user is the expected one; it returns false and
\* changes nothing when it is not; for a user the store does not know it
\* fails with UntrackedId and changes nothing.
UndoCheckOutGuarded ==
    fold.pc = "undone" =>
        IF fold.user_id \in DOMAIN fold.before
        THEN /\ fold.error = "none"
             /\ fold.val = (fold.before[fold.user_id].last_update = fold.last_update)
             /\ fold.users = IF fold.val
                             THEN [fold.before EXCEPT ![fold.user_id].expiration = None]
                             ELSE fold.before
        ELSE /\ fold.error = "UntrackedId"
             /\ fold.users = fold.before

\* undo_check_out has returned false on a leased user whose last_update is
\* not the expected one, and the lease is still there.
UndoCheckOutGuardedWitness ==
    /\ fold.pc = "undone" /\ fold.error = "none" /\ ~fold.val
    /\ fold.user_id \in DOMAIN fold.users
    /\ fold.users[fold.user_id].expiration # None
    /\ fold.users[fold.user_id].last_update # fold.last_update

\* ------------------------------------------------------------------ C19
\* No priority record of id in d says it was observed less than min_age ago.
NotFresh(d, id, min_age, t) ==
    \A k \in AgeKeysOf(d, id) :
        \/ parse_age_value(d[k]).last = None
        \/ t - parse_age_value(d[k]).last >= min_age * TicksPerSec

\* C19: a check_out on a user whose lease was never released succeeds once
\* the time has reached the expiration of the lease, and a get_next that is
\* not cut short by its count returns an id that was leased and never
\* finished once min_running has passed since the lease started.
LeasesExpire ==
    [][/\ \A u \in StoreUsers :
             (IsCheckOut(u) /\ granted[u] # None /\ now >= granted[u])
                 => ret'.val # None
       /\ IsGetNext =>
             \A id \in Ids :
                 (/\ Tracked(db, id)
                  /\ hist[id].leased # None
                  /\ now - hist[id].leased >= ret'.min_running * TicksPerSec
                  /\ NotFresh(db, id, ret'.min_age, now)
                  /\ ret'.count >= Cardinality(AgeKeys(db)))
                     => id \in Returned(ret')
      ]_vars

\* Both loops are scraping the same user, the second on a lease granted
\* when the first had expired, and a get_next with min_running > 0 has
\* returned an id that an earlier get_next leased min_running before.
LeasesExpireWitness ==
    /\ \A w \in Workers : workers[w].pc = "scraping" /\ workers[w].user_id = FoldUser
    /\ ret.op = "get_next" /\ ret.min_running > 0
    /\ \E id \in Returned(ret) :
          /\ hist[id].previous # None
          /\ hist[id].leased - hist[id].previous >= ret.min_running * TicksPerSec

\* ------------------------------------------------------------------ C20
\* C20: no loop ends because an iteration failed: after every Err the loop
\* is iterating again or is in a sleep that is bounded, by ERROR_WAIT_S or
\* by the time to the reset of the rate limit plus WAIT_BUFFER_S.
LoopsGoOn ==
    \A l \in RunLoops \cup DownloadLoops :
        /\ loops[l].pc # "panicked"
        /\ loops[l].pc = "sleeping" =>
              /\ loops[l].high = 0
              /\ loops[l].until <= MaxSec + 1 + WAIT_BUFFER_S

\* ------------------------------------------------------------------ C23
\* What a fresh open() would rebuild from the files as they are.
Rebuilt == open(past, current \o writer)

\* C23: after every update_and_write, failed or not, and every archive, the
\* followers, the following and the last_update of each user with a
\* persisted batch are those that replaying the persisted batches gives.
MemoryIsLog ==
    (ret.op \in {"update_and_write", "archive"} /\ Rebuilt.error = "none") =>
        \A u \in DOMAIN Rebuilt.users :
            /\ u \in DOMAIN users
            /\ users[u].followers = Rebuilt.users[u].followers
            /\ users[u].following = Rebuilt.users[u].following
            /\ users[u].last_update = Rebuilt.users[u].last_update

\* ------------------------------------------------------------------ C24
\* C24: with the batches of the current file all written by make_batch and
\* then update_and_write, and archive() run at any point, no archive()
\* fails with PastFileCollision.
NoPastFileCollision ==
    ret.op = "archive" => ret.error # "PastFileCollision"

\* ------------------------------------------------------------------ C25
\* Loop w leaves its scrape by undo_check_out.
IsUndoCheckOut(w) ==
    workers[w].pc = "scraping" /\ workers'[w].pc = "idle" /\ ret'.op = "undo_check_out"

\* The lease on the user of loop w is one that another loop was granted.
LeaseOfAnother(w) ==
    /\ users[workers[w].user_id].expiration # None
    /\ users[workers[w].user_id].expiration # workers[w].expiration
    /\ \E v \in Workers \ {w} :
          /\ workers[v].pc \in {"scraping", "made"}
          /\ workers[v].user_id = workers[w].user_id
          /\ workers[v].expiration = users[workers[w].user_id].expiration

\* C25: undo_check_out by one loop leaves in place a lease that another loop
\* was granted after the lease of the first had run out.
UndoSparesOthers ==
    [][\A w \in Workers :
          (IsUndoCheckOut(w) /\ LeaseOfAnother(w)) =>
              users'[workers[w].user_id].expiration
                  = users[workers[w].user_id].expiration
      ]_vars

\* ------------------------------------------------------------------ C26
\* The lease-started markers of the priority records of id in d.
Started(d, id) == {parse_age_value(d[k]).started : k \in AgeKeysOf(d, id)}

\* C26: a prioritize or an insert on an id that is leased (its priority
\* record holds a lease-started marker) leaves the marker in place, so that
\* no get_next returns the id again before min_running has elapsed.
LeaseMarkerKept ==
    [][((IsPrioritize \/ IsInsert) /\ Started(db, ret'.id) # {}
            /\ None \notin Started(db, ret'.id))
          => Started(db', ret'.id) = Started(db, ret'.id)
      ]_vars

\* ------------------------------------------------------------------ C30
\* The step is a run_batch that returned the error of its lookup or of a
\* value that is no profile.
IsRunBatchFailed ==
    /\ now' = now /\ ret'.op = "run_batch" /\ ~ret'.ok
    /\ ret'.error \in LookupErrors \cup {"InvalidProfileJson"}

\* C30: a run_batch whose lookup fails, or that is given a value that is no
\* profile, returns the error with no finish and no delete called and no
\* deactivation recorded: it leaves the age database, the lease-started
\* markers of get_next among its records, and the log as they were.
FailedBatchKeepsLeases ==
    [][IsRunBatchFailed => db' = db /\ deactivations' = deactivations]_vars

\* run_batch has failed on a value that is no profile, with two ids leased.
FailedBatchKeepsLeasesWitness ==
    /\ ret.op = "run_batch" /\ ~ret.ok /\ ret.error = "InvalidProfileJson"
    /\ \A id \in Ids : Started(db, id) # {} /\ None \notin Started(db, id)

\* ------------------------------------------------------------------ C21
\* The step is the return of a scrape whose fetch failed.
IsFetchErr == workers' # workers /\ ret'.op = "scrape" /\ ret'.fetch # "none"

\* C21: a rate-limit error of a fetch of scrape_follows is returned by run
\* as that error, not as an Unavailable result; no batch is written and the
\* account is not put in failed: it stays eligible for selection.
RateLimitReachesLoop ==
    [][(IsFetchErr /\ ret'.fetch = "RateLimit") =>
          /\ ret'.result = "Err"
          /\ failed' = failed
          /\ current' = current /\ writer' = writer
      ]_vars

\* ------------------------------------------------------------------ C22
\* The step is a run that selected an account and checked it out.
IsSelected == workers' # workers /\ ret'.op = "run" /\ ret'.result = "Selected"

\* The account is protected, or blocks the user of the client and the loop
\* uses the token of the user.
Excluded(tr, id, token_type) ==
    id \in DOMAIN tr /\ (tr[id].protected \/ (token_type = "User" /\ tr[id].blocks))

\* C22: run selects no tracked account that is protected or that blocks the
\* credential in use, be it an account of the store or one never updated.
NeverSelectsExcluded ==
    [][IsSelected => ~Excluded(tracked, ret'.id, ret'.loop)]_vars

\* ------------------------------------------------------------------ C27
\* The step is the return of a scrape whose fetch gave the ids.
IsFetchOk == workers' # workers /\ ret'.op = "scrape" /\ ret'.fetch = "none"

\* The ids of one side of a batch that are to be prioritized: the
\* additions, and the removals with no deactivation status.
TouchedSide(log, change) ==
    IF change = NoChange THEN {}
    ELSE Range(change.addition_ids)
             \cup {id \in Range(change.removal_ids) : id \notin DOMAIN log}

Touched(log, batch) ==
    TouchedSide(log, batch.follower_change) \cup TouchedSide(log, batch.followed_change)

\* Both records of id in d say next_due = None.
Urgent(d, id) ==
    /\ Tracked(d, id)
    /\ parse_id_value(d[id_key(id)]).next = None
    /\ AgeKeysOf(d, id) = {age_key(None, id)}

\* C27: when the fetch succeeds and update_and_write returns Ok, the batch
\* is applied and appended to the current file, flushed, and every id of
\* the additions and every removal id with no deactivation status is then
\* urgent in the age database; when update_and_write fails nothing is
\* appended and no id is prioritized.
BatchThenPrioritize ==
    [][IsFetchOk =>
          IF ret'.result = "Scraped"
          THEN /\ current' = current \o writer \o write_batch(ret'.batch)
               /\ writer' = <<>>
               /\ users'[ret'.id].last_update = ret'.batch.timestamp
               /\ \A id \in Touched(deactivations, ret'.batch) : Urgent(db', id)
          ELSE ret'.error \in {"StaleBatch", "DuplicateId", "MissingId"}
                  => db' = db /\ current' = current /\ writer' = writer
      ]_vars

\* A scrape has written a batch with a removal and prioritized the id,
\* whose profile had been finished and scheduled before.
BatchThenPrioritizeWitness ==
    /\ ret.op = "scrape" /\ ret.result = "Scraped"
    /\ ret.batch.follower_change.removal_ids = <<1>>
    /\ deactivations = NoDeactivations
    /\ Urgent(db, 1)
    /\ \A k \in AgeKeysOf(db, 1) : parse_age_value(db[k]).last # None

\* ------------------------------------------------------------------ C28
\* The side effect of the status st on the account id is recorded.
Recorded(st, id) ==
    /\ st = "Block" => tracked'[id].blocks
    /\ st = "Protected" => tracked'[id].protected
    /\ st = "Deactivated" => status(deactivations', id) = 50
    /\ st = "Suspended" => status(deactivations', id) = 63
    /\ st = "Unknown" => tracked' = tracked /\ deactivations' = deactivations

\* The lease loop w took on its account is in place no more: the account
\* is not leased, or the lease is one another loop was granted since.
Released(w) ==
    \/ users'[workers[w].user_id].expiration = None
    \/ \E v \in Workers \ {w} :
          /\ workers[v].pc = "scraping"
          /\ workers[v].user_id = workers[w].user_id
          /\ workers[v].last_update # workers[w].last_update
          /\ workers[v].expiration = users'[workers[w].user_id].expiration

\* The statuses the failure branch of scrape matches on.
UnavailableStatuses == {"Block", "Deactivated", "Suspended", "Protected", "Unknown"}

\* What the failure branch of scrape gives loop w for the status st: the
\* side effect of st and no other, and an Unavailable result.
BranchRecords(w, st) ==
    \A r \in {scrape_failed(users, tracked, deactivations, failed,
                            workers[w].user_id, workers[w].last_update, st)} :
        /\ r.result = "Unavailable" /\ r.status = st
        /\ r.tracked = IF st = "Block"
                          THEN [tracked EXCEPT ![workers[w].user_id].blocks = TRUE]
                       ELSE IF st = "Protected"
                          THEN [tracked EXCEPT ![workers[w].user_id].protected = TRUE]
                       ELSE tracked
        /\ st = "Deactivated" => status(r.log, workers[w].user_id) = 50
        /\ st = "Suspended" => status(r.log, workers[w].user_id) = 63
        /\ st \notin {"Deactivated", "Suspended"} => r.log = deactivations
        /\ \A id \in DOMAIN deactivations \ {workers[w].user_id} :
              status(r.log, id) = deactivations[id]
        /\ r.users = undo_check_out(users, workers[w].user_id,
                                    workers[w].last_update).users

Priority(id, t) ==
    IF id \notin DOMAIN users THEN Duration_max_value
    ELSE (trunc_subsecs(t) - users[id].last_update)
            - target_age_of(tracked, id) * TicksPerSec

\* The ids of the candidates of the run loop w starts.
CandidateIds(w) ==
    {c.id : c \in candidates(users, tracked, deactivations, failed, w, now)}

\* C29: run selects a candidate whose priority (now - last_update) -
\* target_age is maximal among the candidates, a never-updated tracked
\* account having the largest priority there is; of the candidates of the
\* maximal priority the one with the smallest id is selected.
SelectsSmallestOfMaximal ==
    [][IsSelected =>
          /\ ret'.id \in CandidateIds(ret'.loop)
          /\ \A d \in CandidateIds(ret'.loop) :
                /\ Priority(d, now) <= Duration_max_value
                /\ \/ Priority(d, now) < Priority(ret'.id, now)
                   \/ Priority(d, now) = Priority(ret'.id, now) /\ ret'.id <= d
      ]_vars

\* C29 as stated: of the candidates of the maximal priority the one with the
\* largest id is selected.
SelectsLargestOfMaximal ==
    [][IsSelected =>
          /\ ret'.id \in CandidateIds(ret'.loop)
          /\ \A d \in CandidateIds(ret'.loop) :
                \/ Priority(d, now) < Priority(ret'.id, now)
                \/ Priority(d, now) = Priority(ret'.id, now) /\ ret'.id >= d
      ]_vars

\* run has selected an account while another tracked account had no entry
\* in the store either: two candidates of the maximal priority.
SelectsSmallestOfMaximalWitness ==
    /\ ret.op = "run" /\ ret.result = "Selected"
    /\ \E id \in DOMAIN tracked \ DOMAIN users : id # ret.id

\* ------------------------------------------------------------------ C40
\* An iteration of loop l has ended in the rate limit of the client.
IsRateLimited(l) ==
    ret'.op = "iteration" /\ ret'.loop = l /\ ret'.error = "RateLimit"

\* C40: the sleep after a rate-limit error is bounded: it ends at the
\* reset plus WAIT_BUFFER_S when the reset is not in the past, and lasts no
\* longer than WAIT_BUFFER_S when it is; the subtraction neither wraps
\* around nor ends the loop.
RateLimitSleepBounded ==
    [][\A l \in RunLoops \cup DownloadLoops :
          IsRateLimited(l) =>
             /\ loops'[l].pc \in {"iterating", "sleeping"}
             /\ loops'[l].high = 0
             /\ loops'[l].pc = "sleeping" =>
                   IF ret'.timestamp_s >= Secs(now)
                   THEN loops'[l].until = ret'.timestamp_s + WAIT_BUFFER_S
                   ELSE loops'[l].until <= Secs(now) + WAIT_BUFFER_S
      ]_vars

\* ------------------------------------------------------------------ C35
\* C35: get_next returns no id whose next_due is later than now: every
\* entry it returns is urgent (next_due = None) or due, whatever count is.
GetNextOnlyDue ==
    [][IsGetNext =>
          \A k \in AgeKeys(db) :
              k[3] \in Returned(ret') =>
                  \/ parse_age_key(k).next = None
                  \/ parse_age_key(k).next <= now
      ]_vars

\* ------------------------------------------------------------------ C38
\* C38: a record whose header declares a length above MAX_ENTRY_LEN that is
\* not the sentinel is not decoded: the reader yields no batch for it and
\* fails.
OverCeilingFails ==
    codec.damage = "length" => codec.out = <<>> /\ codec.pc # "done"

\* ------------------------------------------------------------------ C39
\* The bytes end where a record of the file ends.
AtBoundary(bytes, file) ==
    \E n \in 0..Len(file) : bytes = write_batches(SubSeq(file, 1, n))

\* C39: a reader of bytes that end in the middle of a record, in its header
\* or in its ids, fails; only bytes that end where a record ends are read
\* to the end without an error.
CutFails ==
    (codec.damage = "cut" /\ codec.pc \in {"done", "failed"}) =>
        (codec.pc = "done" <=> AtBoundary(codec.bytes, codec.file))

\* ------------------------------------------------------------------ C32
\* The step is a call of archive(): of the steps of the Store it alone
\* leaves the clock, the users and the loops as they are.
IsArchive ==
    ret'.op = "archive" /\ now' = now /\ users' = users /\ workers' = workers

\* archive() has returned Some.
IsArchived == IsArchive /\ ret'.error = "none" /\ ret'.val # None

\* The batches the current file holds when archive() is called, its writer
\* flushed, and the days they are dated to.
InCurrent == read_batches(current \o writer).batches

DatesInCurrent == {date_naive(InCurrent[i].timestamp) : i \in DOMAIN InCurrent}

\* The number of times x is in seq.
Count(seq, x) == Cardinality({i \in DOMAIN seq : seq[i] = x})

\* a holds the records of b, each as many times.
SameRecords(a, b) ==
    \A x \in Range(a) \cup Range(b) : Count(a, x) = Count(b, x)

\* bs is in the order of (timestamp, user_id).
InOrder(bs) ==
    \A i \in DOMAIN bs, j \in DOMAIN bs :
        i < j => \/ bs[i].timestamp < bs[j].timestamp
                 \/ bs[i].timestamp = bs[j].timestamp /\ bs[i].user_id <= bs[j].user_id

DatesToArchive == {d \in DatesInCurrent : d # date_naive(now)}

\* C33: when the past file of a day archive() would write exists already,
\* archive() fails with PastFileCollision naming that file and changes
\* nothing: no past file is created or changed, and the current file keeps
\* all its records, those of the colliding day too.
CollisionChangesNothing ==
    [][(IsArchive /\ read_batches(current \o writer).end = "end"
           /\ DatesToArchive \cap DOMAIN past # {}) =>
          /\ ret'.error = "PastFileCollision"
          /\ ret'.path \in DatesToArchive \cap DOMAIN past
          /\ past' = past
          /\ current' \o writer' = current \o writer
          /\ read_batches(current' \o writer').batches = InCurrent
      ]_vars

\* archive() has failed with PastFileCollision, and the current file holds
\* a record of the day of the past file the error names.
CollisionChangesNothingWitness ==
    /\ ret.op = "archive" /\ ret.error = "PastFileCollision"
    /\ ret.path \in DOMAIN past
    /\ \E b \in Range(read_batches(current \o writer).batches) :
          date_naive(b.timestamp) = ret.path

\* ------------------------------------------------------------------ C34
\* C34: archive() neither loses nor duplicates batches: when it returns
\* Some(n), n batches were moved, every batch of the current file is in
\* the past file of its day or, if it is of today, in the current file, as
\* often as it was, and the current file read right after archive(), with
\* no write and no flush since, gives all the batches of today.
ArchiveKeepsBatches ==
    [][IsArchived =>
          /\ ret'.val = Len(InCurrent) - Len(OnDate(InCurrent, date_naive(now)))
          /\ \A x \in Range(InCurrent) :
                IF date_naive(x.timestamp) = date_naive(now)
                THEN Count(current_batches(current').batches, x) = Count(InCurrent, x)
                ELSE /\ Count(read_batches(past'[date_naive(x.timestamp)]).batches, x)
                           = Count(InCurrent, x)
                     /\ Count(read_batches(current' \o writer').batches, x) = 0
      ]_vars

\* ------------------------------------------------------------------ C37
\* The operation of this step meets a stored record that does not decode: the
\* id's own value, for prioritize the value at the id's priority key, for
\* get_next the first entry of the scan.
MeetsUndecodable ==
    \/ /\ ret'.op \in {"insert", "prioritize", "finish", "delete"}
       /\ id_key(ret'.id) \in DOMAIN db
       /\ id_value_invalid(db[id_key(ret'.id)])
    \/ /\ ret'.op = "prioritize"
       /\ id_key(ret'.id) \in DOMAIN db
       /\ ~id_value_invalid(db[id_key(ret'.id)])
       /\ age_key(parse_id_value(db[id_key(ret'.id)]).next, ret'.id) \in DOMAIN db
       /\ age_value_invalid(db[age_key(parse_id_value(db[id_key(ret'.id)]).next, ret'.id)])
    \/ /\ ret'.op = "get_next"
       /\ \/ CutKey \in DOMAIN db
          \/ /\ age_key(None, 1) \in DOMAIN db
             /\ age_value_invalid(db[age_key(None, 1)])

\* The operation of this step is given a timestamp or a target age that has
\* no encoding in 32 bits.
GivenUnencodable ==
    \/ ret'.op = "insert" /\ (ret'.last < None \/ ret'.target_age < 0)
    \/ /\ ret'.op = "finish" /\ ret'.target_age < 0
       /\ id_key(ret'.id) \notin DOMAIN db

TypedErrors == {"InvalidKeyBytes", "InvalidValueBytes", "InvalidTimestamp", "InvalidDuration"}

\* C37: an operation that meets a stored record that does not decode, or is
\* given a timestamp or target age that does not fit 32 bits, returns a
\* typed error and leaves the database as it was.
DecodeFailureIsTyped ==
    [][(MeetsUndecodable \/ GivenUnencodable) =>
          /\ ret'.error \in TypedErrors
          /\ db' = db]_vars

\* ------------------------------------------------------------------ C31
\* The step is the get_next of a run_batch, and the operation before it was
\* a run_batch of the same count that failed on the rate limit.
IsRetry ==
    /\ ret.op = "run_batch" /\ ret.error = "RateLimit"
    /\ ret'.op = "get_next" /\ ret'.ok /\ ret'.count = ret.count

\* C31: the retry of a run_batch that failed on the rate limit, with no
\* other operation on the age database in between, leases the ids the
\* failed call had leased.
RetryLeasesSameIds == [][IsRetry => ret'.val = ret.ids]_vars

\* ------------------------------------------------------------------ C36
\* The account is tracked and a candidate of a loop: not protected, not
\* blocking the client of that loop, not deactivated, not in failed.
StaysCandidate(id) ==
    /\ id \in DOMAIN tracked
    /\ ~tracked[id].protected
    /\ \E w \in Workers : ~check_block(tracked[id], w)
    /\ status(deactivations, id) = None
    /\ id \notin failed

\* The scrape of the account has come back with a batch, or the account is
\* selected and the files have reached the bound of the model.
Served(id) ==
    \/ ret.op = "scrape" /\ ret.id = id /\ ret.result = "Scraped"
    \/ /\ Written >= MaxBatches
       /\ \E w \in Workers : workers[w].pc = "scraping" /\ workers[w].user_id = id

====
